---------------------------- MODULE Spec2Model ----------------------------
(***************************************************************************)
(* Model of the tainted-storage detector                                   *)
(* (src/slither_tainted_storage/detectors/tainted_storage.py).             *)
(*                                                                         *)
(* The detector is a static analysis: its input is a compilation unit      *)
(* (contracts, functions, CFG nodes, IR operations, a storage-layout       *)
(* oracle).  Init draws one compilation unit from a bounded family; the    *)
(* actions are the steps of TaintedStorage._detect and of the per-function *)
(* engine it drives, with the Python call stack made explicit.             *)
(***************************************************************************)
EXTENDS Integers, Sequences, FiniteSets, TLC

(***************************************************************************)
(* Bounds of the model.                                                    *)
(***************************************************************************)
\* longest statement sequence of a generated function body
MaxStmts == 2
\* number of detector runs over the same compilation unit
MaxRuns == 2
\* cap on the depth of the analysis stack (Python's recursion limit)
MaxDepth == 6

(***************************************************************************)
(* Host IR: variables.  Every variable is a record of one shape:           *)
(*   kind  "state" | "sol" | "local" | "tmp" | "ref" | "const" | "none"    *)
(*   c     declaring contract (state) or owning function (local/tmp/ref)   *)
(*   n     name; for a reference, the name of the variable it leads to     *)
(*   p, i  position tags making distinct objects distinct                  *)
(* Object identity (Python id()) is the record itself.                     *)
(***************************************************************************)
NoVar == [kind |-> "none", c |-> "", n |-> "", p |-> 0, i |-> 0]
ConstV == [kind |-> "const", c |-> "", n |-> "1", p |-> 0, i |-> 0]
StateV(c, n) == [kind |-> "state", c |-> c, n |-> n, p |-> 0, i |-> 0]
SolV(n) == [kind |-> "sol", c |-> "", n |-> n, p |-> 0, i |-> 0]
LocalV(f, n) == [kind |-> "local", c |-> f, n |-> n, p |-> 0, i |-> 0]
TmpV(f, p, i) == [kind |-> "tmp", c |-> f, n |-> "TMP", p |-> p, i |-> i]
\* a reference i hops away from the variable named n of contract A;
\* n = "#cycle" is a reference chain that closes on itself
RefV(f, n, p, i) == [kind |-> "ref", c |-> f, n |-> n, p |-> p, i |-> i]

_MSG_SENDER == SolV("msg.sender")
_GASLEFT == "gasleft()"
_BALANCE == "balance(address)"

IsNone(v) == v.kind = "none"
IsStateVariable(v) == v.kind = "state"
IsSolidityVariableComposed(v) == v.kind = "sol"
IsReferenceVariable(v) == v.kind = "ref"
IsConstant(v) == v.kind = "const"

\* StateVariable.canonical_name: "<Contract>.<name>"
CanonicalName(v) == v.c \o "." \o v.n

\* the four gas globals, in the lexicographic order of their labels
_GAS_COMPOSED_SOURCES == {"tx.gasprice", "block.basefee", "block.blobbasefee", "block.gaslimit"}

IsGasComposed(v) == IsSolidityVariableComposed(v) /\ v.n \in _GAS_COMPOSED_SOURCES

_HASH_AND_ENCODE == {"keccak256()", "keccak256(bytes)", "sha3()", "sha256()", "sha256(bytes)", "ripemd160()", "ripemd160(bytes)", "abi.encode()", "abi.encodePacked()", "abi.encodeWithSelector()", "abi.encodeWithSignature()", "abi.encodeCall()"}

\* _var_key: state:<canonical_name>, solidity:<name>, else the object id
_var_key(v) ==
  IF IsStateVariable(v) THEN [tag |-> "state", name |-> CanonicalName(v), obj |-> NoVar]
  ELSE IF IsSolidityVariableComposed(v) THEN [tag |-> "solidity", name |-> v.n, obj |-> NoVar]
  ELSE [tag |-> "id", name |-> "", obj |-> v]

\* ReferenceVariable.points_to_origin
points_to_origin(v) ==
  IF v.n = "#cycle" THEN [v EXCEPT !.i = 3 - v.i]
  ELSE IF v.i > 1 THEN [v EXCEPT !.i = v.i - 1]
  ELSE IF v.n = "mem" THEN LocalV(v.c, "mem")
  ELSE StateV("A", v.n)

RECURSIVE ResolveWalk(_, _)
ResolveWalk(v, seen) ==
  IF ~IsReferenceVariable(v) THEN v
  ELSE IF v \in seen THEN v
  ELSE ResolveWalk(points_to_origin(v), seen \cup {v})

\* variant: one step along the chain, without loop
_resolve_ref_one_step(v) == IF IsReferenceVariable(v) THEN points_to_origin(v) ELSE v

\* _resolve_ref: follow the reference chain, stopping on a repeated object
_resolve_ref(v) == ResolveWalk(v, {})

(***************************************************************************)
(* Host IR: operations.  One record shape for every kind:                  *)
(*   op    the operation class                                             *)
(*   lv    lvalue (NoVar when the operation has none)                      *)
(*   l, r  operands: Binary/Index left and right; rvalue of Assignment and *)
(*         Unary; variable of TypeConversion; tuple of Unpack; value of    *)
(*         Condition; call_salt of NewContract; l of Unpack is the        *)
(*         component index, held in the i field of a constant             *)
(*   args  arguments of a call; the reads of a generic operation           *)
(*   fn    SolidityFunction name, or the callee of an InternalCall         *)
(***************************************************************************)
MkIR(op, lv, l, r, args, fn) == [op |-> op, lv |-> lv, l |-> l, r |-> r, args |-> args, fn |-> fn]
Assignment(lv, rv) == MkIR("Assignment", lv, NoVar, rv, <<>>, "")
Binary(lv, l, r) == MkIR("Binary", lv, l, r, <<>>, "")
Unary(lv, rv) == MkIR("Unary", lv, NoVar, rv, <<>>, "")
TypeConversion(lv, v) == MkIR("TypeConversion", lv, NoVar, v, <<>>, "")
Index(lv, l, r) == MkIR("Index", lv, l, r, <<>>, "")
Unpack(lv, t, index) == MkIR("Unpack", lv, [ConstV EXCEPT !.i = index], t, <<>>, "")
SolidityCall(lv, fn, args) == MkIR("SolidityCall", lv, NoVar, NoVar, args, fn)
NewContract(lv, salt) == MkIR("NewContract", lv, NoVar, salt, <<>>, "")
InternalCall(lv, callee, args) == MkIR("InternalCall", lv, NoVar, NoVar, args, callee)
Condition(v) == MkIR("Condition", NoVar, NoVar, v, <<>>, "")
\* any other operation with an lvalue (HighLevelCall, Member, Length, ...)
OtherOp(lv, reads) == MkIR("Other", lv, NoVar, NoVar, reads, "")
Return(values) == MkIR("Return", NoVar, NoVar, NoVar, values, "")

IsOperationWithLValue(ir) == ir.op \notin {"Condition", "Return"}

SeqToSet(s) == {s[k] : k \in 1..Len(s)}

\* Operation.read of each kind
Read(ir) ==
  CASE ir.op \in {"Assignment", "Unary", "TypeConversion", "Unpack", "Condition"} -> <<ir.r>>
    [] ir.op \in {"Binary", "Index"} -> <<ir.l, ir.r>>
    [] ir.op = "NewContract" -> IF IsNone(ir.r) THEN ir.args ELSE <<ir.r>> \o ir.args
    [] OTHER -> ir.args


(***************************************************************************)
(* State.                                                                  *)
(***************************************************************************)
VARIABLES
  cu,                  \* the compilation unit under analysis (immutable input)
  run,                 \* number of the detector run in progress
  phase,               \* driver position: "pick", "analyze", "emit", "done", "aborted"
  ci, fi,              \* indices of the contract and of the analyzable function
  call_taint_cache,    \* _detect: callee canonical_name -> bool
  callee_state_cache,  \* _detect: callee canonical_name -> set of state variables
  seen,                \* _detect: set of (variable canonical_name, function canonical_name)
  results,             \* _detect: the results emitted so far in this run
  stack,               \* activations of _analyze_function, innermost last
  pending,             \* writes returned to the driver and not yet looped over
  prev_results,        \* the results of the completed earlier runs
  escaped              \* the exception that left _detect, "" when none

vars == <<cu, run, phase, ci, fi, call_taint_cache, callee_state_cache, seen, results, stack, pending, prev_results, escaped>>

Func(name) == cu.funcs[name]
Nodes(name) == cu.funcs[name].nodes
\* id(node): the owning function and the index in func.nodes
NodeId(name, k) == [f |-> name, k |-> k]
NodeOf(id) == cu.funcs[id.f].nodes[id.k]
\* Node.sons, as indices into func.nodes (a son index past the end is no son)
Sons(name, k) == SelectSeq([j \in 1..Len(Nodes(name)[k].sons) |-> k + Nodes(name)[k].sons[j]], LAMBDA t : t >= 1 /\ t <= Len(Nodes(name)))

RECURSIVE DedupSeq(_, _)
DedupSeq(s, acc) ==
  IF s = <<>> THEN acc
  ELSE DedupSeq(Tail(s), IF Head(s) \in SeqToSet(acc) THEN acc ELSE Append(acc, Head(s)))

\* Node.state_variables_written: the state variables the lvalues of the
\* node's operations lead to (Index only builds a reference, it writes nothing)
state_variables_written(node) ==
  LET hit(ir) == /\ IsOperationWithLValue(ir)
                 /\ ir.op # "Index"
                 /\ ~IsNone(ir.lv)
                 /\ IsStateVariable(ResolveWalk(ir.lv, {}))
      tgt(ir) == ResolveWalk(ir.lv, {})
      w == SelectSeq(node.irs, hit)
  IN DedupSeq([k \in 1..Len(w) |-> tgt(w[k])], <<>>)

RECURSIVE FlatIRs(_)
FlatIRs(nodes) == IF nodes = <<>> THEN <<>> ELSE Head(nodes).irs \o FlatIRs(Tail(nodes))

(***************************************************************************)
(* Reason inference.                                                       *)
(***************************************************************************)
\* every label, in the order Python's sorted() gives them
LabelOrder == <<"CREATE2", "address.balance", "block.basefee", "block.blobbasefee", "block.gaslimit", "gasleft()", "msg.sender.balance", "tx.gasprice">>

RECURSIVE JoinLabels(_)
\* ", ".join(seq)
JoinLabels(seq) ==
  IF seq = <<>> THEN ""
  ELSE IF Len(seq) = 1 THEN seq[1]
  ELSE seq[1] \o ", " \o JoinLabels(Tail(seq))

\* sorted(reasons)
SortedLabels(reasons) == SelectSeq(LabelOrder, LAMBDA l : l \in reasons)

\* variant: gasleft() calls add no label
IRLabels_without_gasleft(ir) ==
  {v.n : v \in {w \in SeqToSet(Read(ir)) : IsGasComposed(w)}}
  \cup (IF ir.op = "SolidityCall" /\ ir.fn = _BALANCE /\ ir.args # <<>> /\ ir.args[1] = _MSG_SENDER THEN {"msg.sender.balance"} ELSE {})
  \cup (IF ir.op = "NewContract" /\ ~IsNone(ir.r) THEN {"CREATE2"} ELSE {})

\* the labels one operation adds in _collect_reasons
IRLabels(ir) ==
  {v.n : v \in {w \in SeqToSet(Read(ir)) : IsGasComposed(w)}}
  \cup (IF ir.op = "SolidityCall" /\ ir.fn = _GASLEFT THEN {"gasleft()"} ELSE {})
  \cup (IF ir.op = "SolidityCall" /\ ir.fn = _BALANCE /\ ir.args # <<>> /\ ir.args[1] = _MSG_SENDER THEN {"msg.sender.balance"} ELSE {})
  \cup (IF ir.op = "NewContract" /\ ~IsNone(ir.r) THEN {"CREATE2"} ELSE {})

\* the body scan of _collect_reasons for one function
ScanReasons(name) ==
  LET irs == FlatIRs(Nodes(name))
      S == SeqToSet(irs)
      has_msg_sender_ref == \E ir \in S : ir.op = "Assignment" /\ ir.r = _MSG_SENDER
      has_non_sender_balance == \E ir \in S : /\ ir.op = "SolidityCall" /\ ir.fn = _BALANCE
                                              /\ ir.args # <<>> /\ ir.args[1] # _MSG_SENDER
      calls == SelectSeq(irs, LAMBDA ir : ir.op = "InternalCall" /\ ir.fn # "None" /\ ir.fn \in DOMAIN cu.funcs)
  IN [labels |-> UNION {IRLabels(ir) : ir \in S}
                 \cup (IF has_non_sender_balance
                       THEN (IF has_msg_sender_ref THEN {"msg.sender.balance"} ELSE {"address.balance"})
                       ELSE {}),
      callees |-> [k \in 1..Len(calls) |-> calls[k].fn]]

RECURSIVE _collect_reasons(_, _)
\* todo: the functions still to visit, depth first; acc: [reasons, visited]
_collect_reasons(todo, acc) ==
  IF todo = <<>> THEN acc
  ELSE IF Head(todo) \in acc.visited THEN _collect_reasons(Tail(todo), acc)
  ELSE CHOOSE out \in {_collect_reasons(sc.callees \o Tail(todo),
                                         [reasons |-> acc.reasons \cup sc.labels,
                                          visited |-> acc.visited \cup {Head(todo)}]) :
                          sc \in {ScanReasons(Head(todo))}} : TRUE

ReasonLabels(name) == _collect_reasons(<<name>>, [reasons |-> {}, visited |-> {}]).reasons

FallbackReason == "tainted source"

\* variant: no label is inferred, every finding carries the fallback
ReasonString_fallback_only(name) == FallbackReason

\* the string _infer_reason computes for a function
ReasonString(name) ==
  LET ordered == SortedLabels(ReasonLabels(name))
  IN IF ordered # <<>> THEN JoinLabels(ordered) ELSE FallbackReason

\* variant: not memoised; only the first finding gets the inferred labels
_infer_reason_first_finding_only(ctx) ==
  [ctx EXCEPT !.has_reason = TRUE,
              !.cached_reason = IF ctx.tainted_state_writes = <<>> THEN ReasonString(ctx.function) ELSE FallbackReason]

\* _infer_reason: memoised on the context
_infer_reason(ctx) ==
  IF ctx.has_reason THEN ctx ELSE [ctx EXCEPT !.has_reason = TRUE, !.cached_reason = ReasonString(ctx.function)]

(***************************************************************************)
(* Taint context (_FunctionTaintCtx).                                      *)
(***************************************************************************)
\* variant: a new context starts from the state variables already reported
NewCtx_keeps_storage_taint(name) ==
  [function |-> name, tainted |-> {_var_key(results[k].state_var) : k \in 1..Len(results)}, msg_sender_aliases |-> {},
   tainted_state_writes |-> <<>>, seen_writes |-> {},
   has_reason |-> FALSE, cached_reason |-> ""]

NewCtx(name) ==
  [function |-> name, tainted |-> {}, msg_sender_aliases |-> {},
   tainted_state_writes |-> <<>>, seen_writes |-> {},
   has_reason |-> FALSE, cached_reason |-> ""]

is_tainted(ctx, v) == _var_key(v) \in ctx.tainted
mark(ctx, v) == [ctx EXCEPT !.tainted = @ \cup {_var_key(v)}]
mark_if_any_tainted(ctx, lv, reads) ==
  IF (\E k \in 1..Len(reads) : ~IsNone(reads[k]) /\ is_tainted(ctx, reads[k])) /\ ~IsNone(lv)
  THEN mark(ctx, lv) ELSE ctx
\* variant: every address counts as the sender
is_msg_sender_any_address(ctx, v) == TRUE

is_msg_sender(ctx, v) ==
  IF IsSolidityVariableComposed(v) THEN v = _MSG_SENDER ELSE v \in ctx.msg_sender_aliases
mark_msg_sender_alias(ctx, v) == [ctx EXCEPT !.msg_sender_aliases = @ \cup {v}]

\* append a finding unless its (canonical_name, node) key was seen
RecordFinding(ctx, sv, nid) ==
  LET key == <<CanonicalName(sv), nid>>
  IN IF key \in ctx.seen_writes THEN ctx
     ELSE CHOOSE out \in {[c2 EXCEPT !.seen_writes = @ \cup {key},
                                     !.tainted_state_writes = Append(@, [sv |-> sv, node |-> nid, reason |-> c2.cached_reason])] :
                             c2 \in {_infer_reason(ctx)}} : TRUE

\* a variant of _maybe_record_state_write without the isinstance(target,
\* StateVariable) test
_maybe_record_state_write_any_target(ctx, lv, nid) ==
  IF is_tainted(ctx, lv) THEN RecordFinding(ctx, _resolve_ref(lv), nid) ELSE ctx

_maybe_record_state_write(ctx, lv, nid) ==
  LET target == _resolve_ref(lv)
  IN IF IsStateVariable(target) /\ is_tainted(ctx, lv) THEN RecordFinding(ctx, target, nid) ELSE ctx

NonConstReads(ir) == SelectSeq(Read(ir), LAMBDA v : ~IsConstant(v))

(***************************************************************************)
(* Phase 1: data flow inside one node (_process_node_data_flow).           *)
(***************************************************************************)
\* "track msg.sender aliases": the first block of the loop body
TrackAlias(ctx, ir) ==
  IF ir.op = "Assignment"
  THEN IF IsSolidityVariableComposed(ir.r) /\ ir.r = _MSG_SENDER THEN mark_msg_sender_alias(ctx, ir.lv)
       ELSE IF ir.r \in ctx.msg_sender_aliases THEN mark_msg_sender_alias(ctx, ir.lv)
       ELSE ctx
  ELSE ctx

\* "gas-related composed variable sources": mark every gas global read
SeedGasGlobals(ctx, ir) ==
  [ctx EXCEPT !.tainted = @ \cup {_var_key(v) : v \in {w \in SeqToSet(Read(ir)) : IsGasComposed(w)}}]

\* the final "generic" rule of the loop body
GenericRule(ctx, ir) ==
  IF IsOperationWithLValue(ir) /\ ~IsNone(ir.lv) THEN mark_if_any_tainted(ctx, ir.lv, NonConstReads(ir)) ELSE ctx

\* variant: only the first component of a tainted tuple is tainted
UnpackRule_first_component_only(ctx, ir) ==
  IF is_tainted(ctx, ir.r) /\ ir.l.i = 0 /\ ~IsNone(ir.lv) THEN mark(ctx, ir.lv) ELSE ctx

\* "elif isinstance(ir, Unpack)": the component index is not looked at
UnpackRule(ctx, ir) ==
  IF is_tainted(ctx, ir.r) /\ ~IsNone(ir.lv) THEN mark(ctx, ir.lv) ELSE ctx

\* the kind dispatch of the loop body, for every kind but InternalCall
Dispatch(ctx, ir, nid) ==
  CASE ir.op = "SolidityCall" /\ ir.fn = _GASLEFT /\ ~IsNone(ir.lv) -> mark(ctx, ir.lv)
    [] ir.op = "SolidityCall" /\ ir.fn = _BALANCE /\ ~IsNone(ir.lv)
         /\ ir.args # <<>> /\ is_msg_sender(ctx, ir.args[1]) -> mark(ctx, ir.lv)
    [] ir.op = "SolidityCall" /\ ~(ir.fn = _GASLEFT /\ ~IsNone(ir.lv))
         /\ ~(ir.fn = _BALANCE /\ ~IsNone(ir.lv) /\ ir.args # <<>> /\ is_msg_sender(ctx, ir.args[1]))
         /\ ir.fn \in _HASH_AND_ENCODE ->
           IF ~IsNone(ir.lv) THEN mark_if_any_tainted(ctx, ir.lv, ir.args) ELSE ctx
    [] ir.op = "NewContract" /\ ~IsNone(ir.r) /\ ~IsNone(ir.lv) -> mark(ctx, ir.lv)
    [] ir.op = "Assignment" ->
           IF is_tainted(ctx, ir.r) THEN _maybe_record_state_write(mark(ctx, ir.lv), ir.lv, nid) ELSE ctx
    [] ir.op = "Binary" -> mark_if_any_tainted(ctx, ir.lv, <<ir.l, ir.r>>)
    [] ir.op = "Unpack" -> UnpackRule(ctx, ir)
    [] ir.op \in {"Unary", "TypeConversion"} ->
           LET c1 == IF is_tainted(ctx, ir.r) /\ ~IsNone(ir.lv) THEN mark(ctx, ir.lv) ELSE ctx
           IN IF ir.op = "TypeConversion" /\ is_msg_sender(ctx, ir.r) /\ ~IsNone(ir.lv)
              THEN mark_msg_sender_alias(c1, ir.lv) ELSE c1
    [] ir.op = "Index" ->
           IF (is_tainted(ctx, ir.r) \/ is_tainted(ctx, ir.l)) /\ ~IsNone(ir.lv) THEN mark(ctx, ir.lv) ELSE ctx
    [] OTHER -> GenericRule(ctx, ir)

\* one iteration of "for ir in node.irs" for an operation that is no InternalCall
ProcessIR(ctx, ir, nid) == Dispatch(SeedGasGlobals(TrackAlias(ctx, ir), ir), ir, nid)

RECURSIVE PostPass(_, _, _)
\* "After processing all IRs, check for state writes"
PostPass(ctx, irs, nid) ==
  IF irs = <<>> THEN ctx
  ELSE CHOOSE out \in {PostPass(c, Tail(irs), nid) :
                         c \in {IF IsOperationWithLValue(Head(irs)) /\ ~IsNone(Head(irs).lv)
                                THEN _maybe_record_state_write(ctx, Head(irs).lv, nid) ELSE ctx}} : TRUE

(***************************************************************************)
(* Internal calls (_handle_internal_call and its helpers).                 *)
(***************************************************************************)
\* callee is None, or has no "nodes"
CalleeMissing(ir) == ir.fn = "None" \/ ir.fn \notin DOMAIN cu.funcs

\* does one operation make _callee_introduces_taint return True?
IRIntroducesTaint(ir) ==
  \/ ir.op = "SolidityCall" /\ ir.fn = _GASLEFT
  \/ ir.op = "SolidityCall" /\ ir.fn = _BALANCE /\ ir.args # <<>>
       /\ IsSolidityVariableComposed(ir.args[1]) /\ ir.args[1] = _MSG_SENDER
  \/ ir.op = "NewContract" /\ ~IsNone(ir.r)
  \/ \E v \in SeqToSet(Read(ir)) : IsGasComposed(v)

\* variant: every callee is taken to introduce taint
_callee_introduces_taint_always(name) == TRUE

_callee_introduces_taint(name) == \E ir \in SeqToSet(FlatIRs(Nodes(name))) : IRIntroducesTaint(ir)

\* call_taint_cache after the lookup-or-compute of _handle_internal_call
CallTaintCacheAfter(cache, callee) ==
  IF callee \in DOMAIN cache THEN cache
  ELSE [k \in DOMAIN cache \cup {callee} |-> IF k = callee THEN _callee_introduces_taint(callee) ELSE cache[k]]

\* _handle_internal_call up to the marking of the call's lvalue
CallPre(ctx, ir, cache) ==
  LET any_arg_tainted == \E k \in 1..Len(ir.args) : ~IsConstant(ir.args[k]) /\ is_tainted(ctx, ir.args[k])
      callee_has_taint == CallTaintCacheAfter(cache, ir.fn)[ir.fn]
  IN IF (any_arg_tainted \/ callee_has_taint) /\ ~IsNone(ir.lv) THEN mark(ctx, ir.lv) ELSE ctx

RECURSIVE PropagateScan(_, _, _)
PropagateScan(ctx, local_taint, irs) ==
  IF irs = <<>> THEN ctx
  ELSE LET ir == Head(irs)
           reads == NonConstReads(ir)
           hit == /\ IsOperationWithLValue(ir) /\ ~IsNone(ir.lv)
                  /\ \E k \in 1..Len(reads) : is_tainted(ctx, reads[k]) \/ _var_key(reads[k]) \in local_taint
           target == _resolve_ref(ir.lv)
       IN IF hit
          THEN CHOOSE out \in {PropagateScan(c, l, Tail(irs)) :
                                 c \in {IF IsStateVariable(target) THEN mark(ctx, target) ELSE ctx},
                                 l \in {local_taint \cup {_var_key(ir.lv)}}} : TRUE
          ELSE PropagateScan(ctx, local_taint, Tail(irs))

_propagate_caller_taint_through_callee(callee, ctx) == PropagateScan(ctx, {}, FlatIRs(Nodes(callee)))

\* variant: the state variables tainted by the callee are not marked
CallPost_ignores_callee_state(ctx, ir, tainted_state) == _propagate_caller_taint_through_callee(ir.fn, ctx)

\* _handle_internal_call from "for sv in tainted_state" to its end
CallPost(ctx, ir, tainted_state) ==
  _propagate_caller_taint_through_callee(ir.fn, [ctx EXCEPT !.tainted = @ \cup {_var_key(sv) : sv \in tainted_state}])

(***************************************************************************)
(* Phase 2: control flow (_propagate_control_flow_taint).                  *)
(***************************************************************************)
\* variant: the walk does not stop at ENDIF nodes
BranchTurn_through_merge(name, worklist, visited, result) ==
  LET current == worklist[Len(worklist)]
      rest == SubSeq(worklist, 1, Len(worklist) - 1)
  IN IF current \in visited THEN [worklist |-> rest, visited |-> visited, result |-> result]
     ELSE [worklist |-> rest \o SelectSeq(Sons(name, current), LAMBDA t : t \notin visited \cup {current}),
           visited |-> visited \cup {current},
           result |-> Append(result, current)]

\* one turn of the worklist loop of _collect_branch_body (pop takes the last
\* element): [worklist, visited, result]
BranchTurn(name, worklist, visited, result) ==
  LET current == worklist[Len(worklist)]
      rest == SubSeq(worklist, 1, Len(worklist) - 1)
  IN IF current \in visited THEN [worklist |-> rest, visited |-> visited, result |-> result]
     ELSE IF Nodes(name)[current].type = "ENDIF"
          THEN [worklist |-> rest, visited |-> visited \cup {current}, result |-> result]
          ELSE [worklist |-> rest \o SelectSeq(Sons(name, current), LAMBDA t : t \notin visited \cup {current}),
                visited |-> visited \cup {current},
                result |-> Append(result, current)]

RECURSIVE BranchWalk(_, _)
\* the worklist loop of _collect_branch_body; each turn is computed once
BranchWalk(name, st) ==
  IF st.worklist = <<>> THEN st.result
  ELSE CHOOSE out \in {BranchWalk(name, t) : t \in {BranchTurn(name, st.worklist, st.visited, st.result)}} : TRUE

_collect_branch_body(name, k) ==
  BranchWalk(name, [worklist |-> Sons(name, k), visited |-> {k}, result |-> <<>>])

RECURSIVE CondScan_any_tainted_read(_, _, _)
\* variant: a tainted non-constant read of any operation of the node also
\* makes the condition tainted
CondScan_any_tainted_read(ctx, irs, cond) ==
  IF irs = <<>> THEN [ctx |-> ctx, cond_tainted |-> cond]
  ELSE LET ir == Head(irs)
           reads == NonConstReads(ir)
           hit == IsOperationWithLValue(ir) /\ \E k \in 1..Len(reads) : is_tainted(ctx, reads[k])
           c == cond \/ (ir.op = "Condition" /\ is_tainted(ctx, ir.r)) \/ hit
           ctx2 == IF hit /\ ~IsNone(ir.lv) THEN mark(ctx, ir.lv) ELSE ctx
       IN CHOOSE out \in {CondScan_any_tainted_read(c2, Tail(irs), b) : c2 \in {ctx2}, b \in {c}} : TRUE

RECURSIVE CondScan(_, _, _)
\* the loop over the operations of one IF/IFLOOP node: [ctx, cond_tainted]
CondScan(ctx, irs, cond) ==
  IF irs = <<>> THEN [ctx |-> ctx, cond_tainted |-> cond]
  ELSE LET ir == Head(irs)
           c == cond \/ (ir.op = "Condition" /\ is_tainted(ctx, ir.r))
           reads == NonConstReads(ir)
           ctx2 == IF /\ IsOperationWithLValue(ir)
                      /\ \E k \in 1..Len(reads) : is_tainted(ctx, reads[k])
                      /\ ~IsNone(ir.lv)
                   THEN mark(ctx, ir.lv) ELSE ctx
       IN CHOOSE out \in {CondScan(c2, Tail(irs), b) : c2 \in {ctx2}, b \in {c}} : TRUE

RECURSIVE RecordAll(_, _, _)
RecordAll(ctx, svs, nid) ==
  IF svs = <<>> THEN ctx
  ELSE CHOOSE out \in {RecordAll(c, Tail(svs), nid) : c \in {RecordFinding(ctx, Head(svs), nid)}} : TRUE

RECURSIVE RecordBody(_, _, _)
\* the loop over branch_nodes; the context after one node is computed once
RecordBody(ctx, name, body) ==
  IF body = <<>> THEN ctx
  ELSE CHOOSE out \in {RecordBody(c, name, Tail(body)) :
                         c \in {RecordAll(ctx, state_variables_written(Nodes(name)[Head(body)]), NodeId(name, Head(body)))}} : TRUE

\* the operations of one IF/IFLOOP node, then its branch body when the
\* condition is tainted
ControlFlowNode(ctx, k) ==
  CHOOSE out \in {IF ~sc.cond_tainted THEN sc.ctx
                  ELSE CHOOSE rec \in {RecordBody(sc.ctx, ctx.function, branch_nodes) :
                                        branch_nodes \in {_collect_branch_body(ctx.function, k)}} : TRUE :
                  sc \in {CondScan(ctx, Nodes(ctx.function)[k].irs, FALSE)}} : TRUE

RECURSIVE ControlFlowFrom_guards_as_branches(_, _)
\* variant: a node holding a require call on a tainted value is treated like
\* a branch whose condition is tainted
ControlFlowFrom_guards_as_branches(ctx, k) ==
  IF k > Len(Nodes(ctx.function)) THEN ctx
  ELSE IF Nodes(ctx.function)[k].type \in {"IF", "IFLOOP"}
       THEN CHOOSE out \in {ControlFlowFrom_guards_as_branches(c, k + 1) : c \in {ControlFlowNode(ctx, k)}} : TRUE
  ELSE IF \E ir \in SeqToSet(Nodes(ctx.function)[k].irs) :
             /\ ir.op = "SolidityCall" /\ ir.fn = "require(bool)"
             /\ \E a \in SeqToSet(ir.args) : is_tainted(ctx, a)
       THEN CHOOSE out \in {ControlFlowFrom_guards_as_branches(c, k + 1) :
                              c \in {RecordBody(ctx, ctx.function, _collect_branch_body(ctx.function, k))}} : TRUE
  ELSE ControlFlowFrom_guards_as_branches(ctx, k + 1)

RECURSIVE ControlFlowFrom(_, _)
\* the loop over func.nodes; the context after one node is computed once and
\* handed to the rest of the loop
ControlFlowFrom(ctx, k) ==
  IF k > Len(Nodes(ctx.function)) THEN ctx
  ELSE IF Nodes(ctx.function)[k].type \notin {"IF", "IFLOOP"} THEN ControlFlowFrom(ctx, k + 1)
  ELSE CHOOSE out \in {ControlFlowFrom(c, k + 1) : c \in {ControlFlowNode(ctx, k)}} : TRUE

_propagate_control_flow_taint(ctx) == ControlFlowFrom(ctx, 1)

(***************************************************************************)
(* Phase 3: overwrite elimination (_remove_overwritten_findings).          *)
(***************************************************************************)
RECURSIVE DepthFrom(_, _, _)
\* branch_depth: the depth given to each node, by the linear scan
DepthFrom(nodes, k, depth) ==
  IF k > Len(nodes) THEN <<>>
  ELSE IF nodes[k].type \in {"IF", "IFLOOP"} THEN <<depth>> \o DepthFrom(nodes, k + 1, depth + 1)
  ELSE IF nodes[k].type = "ENDIF"
       THEN CHOOSE out \in {<<d>> \o DepthFrom(nodes, k + 1, d) : d \in {IF depth - 1 > 0 THEN depth - 1 ELSE 0}} : TRUE
  ELSE <<depth>> \o DepthFrom(nodes, k + 1, depth)

branch_depth(name) == DepthFrom(Nodes(name), 1, 0)

\* is this operation collected as an unconditional state-variable assignment?
IsDirectStateAssignment(ir) ==
  /\ ir.op = "Assignment"
  /\ ~IsNone(ir.lv)
  /\ ~IsReferenceVariable(ir.lv)
  /\ IsStateVariable(_resolve_ref(ir.lv))

\* writes[cname]: the (node index, is_tainted, position) triples of the depth-0 writes
UnconditionalWrites(ctx, cname) ==
  LET nodes == Nodes(ctx.function)
      at == UNION {{<<k, j>> : j \in 1..Len(nodes[k].irs)} : k \in 1..Len(nodes)}
  IN UNION {{[idx |-> q[1], tainted |-> is_tainted(ctx, nodes[q[1]].irs[q[2]].r), pos |-> q[2]] :
               q \in {q2 \in at : /\ bd[q2[1]] = 0
                                  /\ IsDirectStateAssignment(nodes[q2[1]].irs[q2[2]])
                                  /\ CanonicalName(_resolve_ref(nodes[q2[1]].irs[q2[2]].lv)) = cname}} :
            bd \in {branch_depth(ctx.function)}}

\* a variant of LastWrite that takes write_list[0], the first unconditional write
LastWrite_first(ws) == CHOOSE w \in ws : \A o \in ws : o.idx > w.idx \/ (o.idx = w.idx /\ o.pos >= w.pos)

\* write_list[-1] after the stable sort by node index
LastWrite(ws) == CHOOSE w \in ws : \A o \in ws : o.idx < w.idx \/ (o.idx = w.idx /\ o.pos <= w.pos)

\* to_remove
ToRemove(ctx) ==
  {cname \in {CanonicalName(_resolve_ref(ir.lv)) : ir \in {q \in SeqToSet(FlatIRs(Nodes(ctx.function))) : IsDirectStateAssignment(q)}} :
     LET ws == UnconditionalWrites(ctx, cname) IN ws # {} /\ ~LastWrite(ws).tainted}

\* variant: the eliminator also removes the dropped variables from the
\* tainted set
_remove_overwritten_findings_untaints(ctx) ==
  IF ctx.tainted_state_writes = <<>> THEN ctx
  ELSE CHOOSE out \in
         {IF rm = {} THEN ctx
          ELSE LET kept == SelectSeq(ctx.tainted_state_writes, LAMBDA w : CanonicalName(w.sv) \notin rm)
                   dropped == SelectSeq(ctx.tainted_state_writes, LAMBDA w : CanonicalName(w.sv) \in rm)
               IN [ctx EXCEPT !.tainted_state_writes = kept,
                              !.seen_writes = {<<CanonicalName(kept[k].sv), kept[k].node>> : k \in 1..Len(kept)},
                              !.tainted = @ \ {_var_key(dropped[k].sv) : k \in 1..Len(dropped)}] :
          rm \in {ToRemove(ctx)}} : TRUE

\* variant: the eliminator filters the findings and leaves _seen_writes as it was
_remove_overwritten_findings_keeps_seen(ctx) ==
  IF ctx.tainted_state_writes = <<>> THEN ctx
  ELSE CHOOSE out \in
         {IF rm = {} THEN ctx
          ELSE [ctx EXCEPT !.tainted_state_writes = SelectSeq(@, LAMBDA w : CanonicalName(w.sv) \notin rm)] :
          rm \in {ToRemove(ctx)}} : TRUE

_remove_overwritten_findings(ctx) ==
  IF ctx.tainted_state_writes = <<>> THEN ctx
  ELSE CHOOSE out \in
         {IF rm = {} THEN ctx
          ELSE LET kept == SelectSeq(ctx.tainted_state_writes, LAMBDA w : CanonicalName(w.sv) \notin rm)
               IN [ctx EXCEPT !.tainted_state_writes = kept,
                              !.seen_writes = {<<CanonicalName(kept[k].sv), kept[k].node>> : k \in 1..Len(kept)}] :
          rm \in {ToRemove(ctx)}} : TRUE

(***************************************************************************)
(* Storage slots (_get_storage_slot and the slot_hex format of _detect).   *)
(***************************************************************************)
HexChars == <<"0", "1", "2", "3", "4", "5", "6", "7", "8", "9", "a", "b", "c", "d", "e", "f">>

RECURSIVE HexDigits(_)
\* the digits of n >= 0 in base 16, most significant first
HexDigits(n) == IF n < 16 THEN <<HexChars[n + 1]>> ELSE HexDigits(n \div 16) \o <<HexChars[(n % 16) + 1]>>

\* the zero padding: k characters "0" (none when k <= 0)
Zeros(k) == [j \in 1..k |-> "0"]

\* the field width of the format specification "064x"
SlotHexWidth == 64

\* format(n, "064x"): sign first, then zeros up to the width, then the digits
Format064x(n) ==
  LET sign == IF n < 0 THEN <<"-">> ELSE <<>>
      digits == HexDigits(IF n < 0 THEN -n ELSE n)
  IN sign \o Zeros(SlotHexWidth - Len(sign) - Len(digits)) \o digits

\* f"0x{slot:064x}"
SlotHex(slot) == <<"0", "x">> \o Format064x(slot)

HexValue(ch) == CHOOSE d \in 0..15 : HexChars[d + 1] = ch

RECURSIVE HexNumber(_, _)
\* the value of a digit string without leading zeros, most significant first
HexNumber(chars, acc) == IF chars = <<>> THEN acc ELSE HexNumber(Tail(chars), acc * 16 + HexValue(Head(chars)))

\* the value of a digit string: leading zeros contribute nothing
HexDigitsValue(chars) ==
  LET nz == {k \in 1..Len(chars) : chars[k] # "0"}
  IN IF nz = {} THEN 0
     ELSE HexNumber(SubSeq(chars, CHOOSE k \in nz : \A o \in nz : k <= o, Len(chars)), 0)

\* Python's int(s, 16): an optional sign, an optional 0x, then hex digits only;
\* anything else raises ValueError (ok = FALSE)
IntBase16(chars) ==
  LET neg == chars # <<>> /\ chars[1] = "-"
      s1 == IF chars # <<>> /\ chars[1] \in {"-", "+"} THEN Tail(chars) ELSE chars
      s2 == IF Len(s1) >= 2 /\ s1[1] = "0" /\ s1[2] = "x" THEN SubSeq(s1, 3, Len(s1)) ELSE s1
      ok == s2 # <<>> /\ \A k \in 1..Len(s2) : s2[k] \in SeqToSet(HexChars)
  IN [ok |-> ok, value |-> IF ok THEN (IF neg THEN -HexDigitsValue(s2) ELSE HexDigitsValue(s2)) ELSE 0]

\* compilation_unit.storage_layout_of(contract, var): a pair, or an exception
storage_layout_of(contract, sv) == cu.layout[CanonicalName(sv)]

\* a variant of _get_storage_slot with "except KeyError" only
_get_storage_slot_KeyError_only(contract, sv) ==
  LET o == storage_layout_of(contract, sv)
  IN IF o.err = "" THEN [err |-> "", slot |-> o.slot, offset |-> o.offset]
     ELSE IF o.err = "KeyError" THEN [err |-> "", slot |-> -1, offset |-> -1]
     ELSE [err |-> o.err, slot |-> 0, offset |-> 0]

\* _get_storage_slot: the pair, (-1, -1) on KeyError/AttributeError, else the
\* exception goes on to the caller
_get_storage_slot(contract, sv) ==
  LET o == storage_layout_of(contract, sv)
  IN IF o.err = "" THEN [err |-> "", slot |-> o.slot, offset |-> o.offset]
     ELSE IF o.err \in {"KeyError", "AttributeError"} THEN [err |-> "", slot |-> -1, offset |-> -1]
     ELSE [err |-> o.err, slot |-> 0, offset |-> 0]

(***************************************************************************)
(* The compilation units Init draws from.  A function body is a sequence   *)
(* of statements; each statement is lowered to the CFG nodes and IR        *)
(* operations the host front end produces for it.  A node's sons are kept  *)
(* as offsets from the node, so fragments concatenate without renumbering. *)
(***************************************************************************)
MkNode(type, irs, sons) == [type |-> type, irs |-> irs, sons |-> sons]
Expr(irs) == <<MkNode("EXPRESSION", irs, <<1>>)>>
EntryPoint == <<MkNode("ENTRY_POINT", <<>>, <<1>>)>>
\* a return statement: a node without sons
ReturnNode(irs) == <<MkNode("RETURN", irs, <<>>)>>

\* if (cond) { body }: IF, the body, ENDIF; the false son of IF is the ENDIF
IfFrag(cond, body) ==
  <<MkNode("IF", cond, <<1, Len(body) + 1>>)>> \o body \o <<MkNode("ENDIF", <<>>, <<1>>)>>

\* while (cond) { body }: STARTLOOP, IFLOOP, the body (its exits lead back to
\* the IFLOOP), ENDLOOP; no ENDIF closes a loop
LoopFrag(cond, body) ==
  <<MkNode("STARTLOOP", <<>>, <<1>>), MkNode("IFLOOP", cond, <<1, Len(body) + 1>>)>>
  \o [k \in 1..Len(body) |->
        [body[k] EXCEPT !.sons = [j \in 1..Len(body[k].sons) |->
                                    IF k + body[k].sons[j] > Len(body) THEN 0 - k ELSE body[k].sons[j]]]]
  \o <<MkNode("ENDLOOP", <<>>, <<1>>)>>

X == StateV("A", "x")
Y == StateV("A", "y")

GasCond(f, p) == <<SolidityCall(TmpV(f, p, 1), _GASLEFT, <<>>), Binary(TmpV(f, p, 2), TmpV(f, p, 1), ConstV), Condition(TmpV(f, p, 2))>>
CleanCond(f, p) == <<Binary(TmpV(f, p, 2), LocalV(f, "arg"), ConstV), Condition(TmpV(f, p, 2))>>
SetGas(f, p, sv) == Expr(<<SolidityCall(TmpV(f, p, 3), _GASLEFT, <<>>), Assignment(sv, TmpV(f, p, 3))>>)
SetConst(sv) == Expr(<<Assignment(sv, ConstV)>>)

\* the nodes of one statement, written at position p of function f
Frag(code, f, p) ==
  CASE code = "x=gasleft()" -> SetGas(f, p, X)
    [] code = "x=1" -> SetConst(X)
    [] code = "y=1" -> SetConst(Y)
    [] code = "y=x" -> Expr(<<Assignment(Y, X)>>)
    [] code = "y=y+1" -> Expr(<<Binary(TmpV(f, p, 1), Y, ConstV), Assignment(Y, TmpV(f, p, 1))>>)
    [] code = "y=x+1" -> Expr(<<Binary(TmpV(f, p, 1), X, ConstV), Assignment(Y, TmpV(f, p, 1))>>)
    [] code = "if(gasleft()>1){x=1}" -> IfFrag(GasCond(f, p), SetConst(X))
    [] code = "if(c){x=gasleft()}" -> IfFrag(CleanCond(f, p), SetGas(f, p, X))
    [] code = "if(gasleft()>1){if(c){x=1};y=1}" ->
         IfFrag(GasCond(f, p), IfFrag(CleanCond(f, p + 10), SetConst(X)) \o SetConst(Y))
    [] code = "if(c,gasleft()+1){x=1}" ->
         IfFrag(<<SolidityCall(TmpV(f, p, 1), _GASLEFT, <<>>), Binary(TmpV(f, p, 3), TmpV(f, p, 1), ConstV)>> \o CleanCond(f, p),
                SetConst(X))
    [] code = "while(gasleft()>1){x=1}" -> LoopFrag(GasCond(f, p), SetConst(X))
    [] code = "x[k]=gasleft()" ->
         Expr(<<SolidityCall(TmpV(f, p, 1), _GASLEFT, <<>>), Index(RefV(f, "x", p, 1), X, LocalV(f, "arg")),
                Assignment(RefV(f, "x", p, 1), TmpV(f, p, 1))>>)
    [] code = "x[k][j]=gasleft()" ->
         Expr(<<SolidityCall(TmpV(f, p, 1), _GASLEFT, <<>>), Index(RefV(f, "x", p, 1), X, LocalV(f, "arg")),
                Index(RefV(f, "x", p, 2), RefV(f, "x", p, 1), LocalV(f, "arg")),
                Assignment(RefV(f, "x", p, 2), TmpV(f, p, 1))>>)
    [] code = "mem[k]=gasleft()" ->
         Expr(<<SolidityCall(TmpV(f, p, 1), _GASLEFT, <<>>), Index(RefV(f, "mem", p, 1), LocalV(f, "mem"), LocalV(f, "arg")),
                Assignment(RefV(f, "mem", p, 1), TmpV(f, p, 1))>>)
    [] code = "cyclic reference=gasleft()" ->
         Expr(<<SolidityCall(TmpV(f, p, 1), _GASLEFT, <<>>), Assignment(RefV(f, "#cycle", p, 1), TmpV(f, p, 1))>>)
    [] code = "x[k]=1" ->
         Expr(<<Index(RefV(f, "x", p, 1), X, LocalV(f, "arg")), Assignment(RefV(f, "x", p, 1), ConstV)>>)
    [] code = "require(gasleft()>1)" ->
         Expr(<<SolidityCall(TmpV(f, p, 1), _GASLEFT, <<>>), Binary(TmpV(f, p, 2), TmpV(f, p, 1), ConstV),
                SolidityCall(NoVar, "require(bool)", <<TmpV(f, p, 2)>>)>>)
    [] code = "x=tx.gasprice" -> Expr(<<Assignment(X, SolV("tx.gasprice"))>>)
    [] code = "x=block.basefee+block.gaslimit" ->
         Expr(<<Binary(TmpV(f, p, 1), SolV("block.basefee"), SolV("block.gaslimit")), Assignment(X, TmpV(f, p, 1))>>)
    [] code = "x=block.blobbasefee" -> Expr(<<Assignment(X, SolV("block.blobbasefee"))>>)
    [] code = "x=block.timestamp" -> Expr(<<Assignment(X, SolV("block.timestamp"))>>)
    [] code = "x=new C{salt:s}()" ->
         Expr(<<NewContract(TmpV(f, p, 1), LocalV(f, "salt")), TypeConversion(TmpV(f, p, 2), TmpV(f, p, 1)),
                Assignment(X, TmpV(f, p, 2))>>)
    [] code = "x=new C()" ->
         Expr(<<NewContract(TmpV(f, p, 1), NoVar), TypeConversion(TmpV(f, p, 2), TmpV(f, p, 1)),
                Assignment(X, TmpV(f, p, 2))>>)
    [] code = "x=msg.sender.balance" ->
         Expr(<<SolidityCall(TmpV(f, p, 1), _BALANCE, <<_MSG_SENDER>>), Assignment(X, TmpV(f, p, 1))>>)
    [] code = "a=msg.sender;x=a.balance" ->
         Expr(<<Assignment(LocalV(f, "a"), _MSG_SENDER)>>)
         \o Expr(<<SolidityCall(TmpV(f, p, 1), _BALANCE, <<LocalV(f, "a")>>), Assignment(X, TmpV(f, p, 1))>>)
    [] code = "x=payable(msg.sender).balance" ->
         Expr(<<TypeConversion(TmpV(f, p, 1), _MSG_SENDER), SolidityCall(TmpV(f, p, 2), _BALANCE, <<TmpV(f, p, 1)>>),
                Assignment(X, TmpV(f, p, 2))>>)
    [] code = "x=who.balance" ->
         Expr(<<SolidityCall(TmpV(f, p, 1), _BALANCE, <<LocalV(f, "who")>>), Assignment(X, TmpV(f, p, 1))>>)
    [] code = "x=keccak256(gasleft())" ->
         Expr(<<SolidityCall(TmpV(f, p, 1), _GASLEFT, <<>>), SolidityCall(TmpV(f, p, 2), "keccak256(bytes)", <<TmpV(f, p, 1)>>),
                Assignment(X, TmpV(f, p, 2))>>)
    [] code = "x=-gasleft()" ->
         Expr(<<SolidityCall(TmpV(f, p, 1), _GASLEFT, <<>>), Unary(TmpV(f, p, 2), TmpV(f, p, 1)), Assignment(X, TmpV(f, p, 2))>>)
    [] code = "(x,y)=(gasleft(),0)" ->
         Expr(<<SolidityCall(TmpV(f, p, 1), _GASLEFT, <<>>), OtherOp(TmpV(f, p, 2), <<TmpV(f, p, 1), ConstV>>),
                Unpack(X, TmpV(f, p, 2), 0), Unpack(Y, TmpV(f, p, 2), 1)>>)
    [] code = "(a,b)=(gasleft(),0);x=a;y=b" ->
         Expr(<<SolidityCall(TmpV(f, p, 1), _GASLEFT, <<>>), OtherOp(TmpV(f, p, 2), <<TmpV(f, p, 1), ConstV>>),
                Unpack(LocalV(f, "a"), TmpV(f, p, 2), 0), Unpack(LocalV(f, "b"), TmpV(f, p, 2), 1)>>)
         \o Expr(<<Assignment(X, LocalV(f, "a"))>>) \o Expr(<<Assignment(Y, LocalV(f, "b"))>>)
    [] code = "(a,b)=(1,0);x=a;y=b" ->
         Expr(<<OtherOp(TmpV(f, p, 2), <<ConstV, ConstV>>),
                Unpack(LocalV(f, "a"), TmpV(f, p, 2), 0), Unpack(LocalV(f, "b"), TmpV(f, p, 2), 1)>>)
         \o Expr(<<Assignment(X, LocalV(f, "a"))>>) \o Expr(<<Assignment(Y, LocalV(f, "b"))>>)
    [] code = "v=x[gasleft()]" ->
         Expr(<<SolidityCall(TmpV(f, p, 1), _GASLEFT, <<>>), Index(RefV(f, "x", p, 1), X, TmpV(f, p, 1)),
                Assignment(LocalV(f, "v"), RefV(f, "x", p, 1))>>)
    [] code = "g()" -> Expr(<<InternalCall(NoVar, "A.g", <<>>)>>)
    [] code = "h()" -> Expr(<<InternalCall(NoVar, "A.h", <<>>)>>)
    [] code = "f()" -> Expr(<<InternalCall(NoVar, "A.f", <<>>)>>)
    [] code = "y=g()" -> Expr(<<InternalCall(TmpV(f, p, 1), "A.g", <<>>), Assignment(Y, TmpV(f, p, 1))>>)
    [] code = "y=h()" -> Expr(<<InternalCall(TmpV(f, p, 1), "A.h", <<>>), Assignment(Y, TmpV(f, p, 1))>>)
    [] code = "return h()" -> ReturnNode(<<InternalCall(TmpV(f, p, 1), "A.h", <<>>), Return(<<TmpV(f, p, 1)>>)>>)
    [] code = "return gasleft()" -> ReturnNode(<<SolidityCall(TmpV(f, p, 1), _GASLEFT, <<>>), Return(<<TmpV(f, p, 1)>>)>>)
    [] code = "return 1" -> ReturnNode(<<Return(<<ConstV>>)>>)
    [] code = "x=block.number" -> Expr(<<Assignment(X, SolV("block.number"))>>)
    [] code = "x=msg.value" -> Expr(<<Assignment(X, SolV("msg.value"))>>)
    [] code = "fp()" -> Expr(<<InternalCall(NoVar, "None", <<>>)>>)
    [] code = "free()" -> Expr(<<InternalCall(NoVar, "free", <<>>)>>)
    [] OTHER -> <<>>

RECURSIVE Lower(_, _, _)
Lower(codes, f, p) == IF codes = <<>> THEN <<>> ELSE Frag(Head(codes), f, p) \o Lower(Tail(codes), f, p + 1)

\* func.nodes of a function with the given statements
Body(codes, f) == EntryPoint \o Lower(codes, f, 1)

\* a function: src is the source text its nodes were lowered from
MkFunc(f, codes, decl) == [src |-> codes, nodes |-> Body(codes, f), is_implemented |-> TRUE, contract_declarer |-> decl]
Unimplemented(decl) == [src |-> <<>>, nodes |-> <<>>, is_implemented |-> FALSE, contract_declarer |-> decl]
MkContract(name, fd, md, mods) == [name |-> name, functions_declared |-> fd, modifiers_declared |-> md, modifiers |-> mods]
Slot(k, off) == [err |-> "", slot |-> k, offset |-> off]
Raises(e) == [err |-> e, slot |-> 0, offset |-> 0]
PlainLayout == [n \in {"A.x", "A.y"} |-> IF n = "A.x" THEN Slot(0, 0) ELSE Slot(1, 0)]

\* statements combined into sequences of up to MaxStmts
SeqStmts == {"x=gasleft()", "x=1", "y=1", "y=x", "if(gasleft()>1){x=1}", "if(c){x=gasleft()}", "if(gasleft()>1){if(c){x=1};y=1}", "while(gasleft()>1){x=1}", "x[k]=gasleft()", "x[k]=1", "require(gasleft()>1)"}

\* statements analysed on their own: one per source and non-source kind
SoloStmts == {"x=tx.gasprice", "x=block.basefee+block.gaslimit", "x=block.blobbasefee", "x=block.timestamp", "x=block.number", "x=msg.value", "x=new C{salt:s}()", "x=new C()", "x=msg.sender.balance", "a=msg.sender;x=a.balance", "x=payable(msg.sender).balance", "x=who.balance", "x=keccak256(gasleft())", "x=-gasleft()", "if(c,gasleft()+1){x=1}", "x[k][j]=gasleft()", "mem[k]=gasleft()", "cyclic reference=gasleft()", "(x,y)=(gasleft(),0)", "(a,b)=(gasleft(),0);x=a;y=b", "(a,b)=(1,0);x=a;y=b", "v=x[gasleft()]", "fp()"}

StmtSeqs == UNION {[1..n -> SeqStmts] : n \in 1..MaxStmts}

\* one contract, one function
SingleFunctionUnits ==
  {[funcs |-> [n \in {"A.f"} |-> MkFunc("A.f", codes, "A")],
    contracts |-> <<MkContract("A", <<"A.f">>, <<>>, <<>>)>>,
    layout |-> PlainLayout] :
     codes \in StmtSeqs \cup {<<c>> : c \in SoloStmts} \cup {<<"x=gasleft()", c>> : c \in {"x=payable(msg.sender).balance", "x=who.balance"}}
           \cup {<<"x=who.balance", "x=gasleft()">>}}

FBodies == {<<"g()">>, <<"g()", "y=x+1">>, <<"y=g()">>, <<"h()", "g()">>, <<"x=1", "g()">>, <<"free()", "y=x">>}
GBodies == {<<"x=gasleft()">>, <<"x=1">>, <<"h()">>, <<"f()", "x=gasleft()">>, <<"g()", "x=tx.gasprice">>, <<"y=h()">>, <<"y=x">>}
HBodies == {<<"x=gasleft()">>, <<"g()">>, <<"x=payable(msg.sender).balance">>, <<"y=x">>}

\* one contract, three functions calling one another, and a free function
\* (declared outside every contract: contract_declarer is None)
CallGraphUnits ==
  {[funcs |-> [n \in {"A.f", "A.g", "A.h", "free"} |->
                 IF n = "A.f" THEN MkFunc(n, fb, "A") ELSE IF n = "A.g" THEN MkFunc(n, gb, "A")
                 ELSE IF n = "A.h" THEN MkFunc(n, hb, "A") ELSE MkFunc(n, <<"x=gasleft()">>, "None")],
    contracts |-> <<MkContract("A", <<"A.f", "A.g", "A.h">>, <<>>, <<>>)>>,
    layout |-> PlainLayout] :
     fb \in FBodies, gb \in GBodies, hb \in HBodies}

\* one contract, three functions; values travel through return statements
ReturnChainUnits ==
  {[funcs |-> [n \in {"A.f", "A.g", "A.h"} |->
                 IF n = "A.f" THEN MkFunc(n, fb, "A") ELSE IF n = "A.g" THEN MkFunc(n, gb, "A") ELSE MkFunc(n, hb, "A")],
    contracts |-> <<MkContract("A", <<"A.f", "A.g", "A.h">>, <<>>, <<>>)>>,
    layout |-> PlainLayout] :
     fb \in {<<"y=g()">>, <<"g()", "y=x+1">>}, gb \in {<<"return h()">>, <<"x=1">>},
     hb \in {<<"return gasleft()">>, <<"return 1">>}}

\* one contract, two functions on a cycle of internal calls: g copies what f
\* writes after its call of g, f updates what g writes
CallCycleUnits ==
  {[funcs |-> [n \in {"A.f", "A.g"} |-> IF n = "A.f" THEN MkFunc(n, fb, "A") ELSE MkFunc(n, gb, "A")],
    contracts |-> <<MkContract("A", <<"A.f", "A.g">>, <<>>, <<>>)>>,
    layout |-> PlainLayout] :
     fb \in {<<"g()", "x=gasleft()", "y=y+1">>, <<"g()", "y=y+1">>}, gb \in {<<"f()", "y=x">>, <<"y=x">>}}

OracleOutcomes == {Slot(0, 0), Slot(2, 16), Slot(255, 0), Slot(4096, 4), Raises("KeyError"), Raises("AttributeError"), Raises("TypeError")}

\* contracts B and C both inherit modifier A.m of the base contract A; B
\* declares a function and an unimplemented one, C re-declares nothing
InheritanceUnits ==
  {[funcs |-> [n \in {"A.m", "B.k", "B.u", "C.k"} |->
                 IF n = "A.m" THEN MkFunc(n, mb, "A")
                 ELSE IF n = "B.k" THEN MkFunc(n, <<"x=gasleft()", "y=x">>, "B")
                 ELSE IF n = "B.u" THEN Unimplemented("B")
                 ELSE MkFunc(n, <<"y=1">>, "C")],
    contracts |-> <<MkContract("B", <<"B.k", "B.u">>, <<>>, <<"A.m">>), MkContract("C", <<"C.k">>, <<>>, <<"A.m">>)>>,
    layout |-> [n \in {"A.x", "A.y"} |-> IF n = "A.x" THEN ox ELSE oy]] :
     mb \in {<<"x=gasleft()">>, <<"y=1">>}, ox \in OracleOutcomes, oy \in {Slot(1, 0), Raises("KeyError"), Raises("TypeError")}}

CompilationUnits == SingleFunctionUnits \cup CallGraphUnits \cup ReturnChainUnits \cup CallCycleUnits \cup InheritanceUnits

(***************************************************************************)
(* The driver (TaintedStorage._detect) and the engine, step by step.       *)
(***************************************************************************)
EmptyBoolMap == [k \in {} |-> FALSE]
EmptySetMap == [k \in {} |-> {}]

\* "analyzable": functions_declared, modifiers_declared, then the inherited
\* modifiers that are not in the list yet
Analyzable(contract) ==
  LET own == contract.functions_declared \o contract.modifiers_declared
  IN own \o SelectSeq(contract.modifiers, LAMBDA m : m \notin SeqToSet(own))

NewFrame(name) == [ctx |-> NewCtx(name), pc |-> "df", ni |-> 1, ii |-> 1]

Top == stack[Len(stack)]
TopNode == Nodes(Top.ctx.function)[Top.ni]
TopIR == TopNode.irs[Top.ii]
TopNodeId == NodeId(Top.ctx.function, Top.ni)
InDataFlow == phase = "analyze" /\ stack # <<>> /\ Top.pc = "df" /\ Top.ni <= Len(Nodes(Top.ctx.function))

\* the frame after the current operation left the context as ctx2: the next
\* operation of the node, or the post-pass and the next node
Advance(fr, ctx2) ==
  LET node == Nodes(fr.ctx.function)[fr.ni]
  IN IF fr.ii < Len(node.irs)
     THEN [fr EXCEPT !.ctx = ctx2, !.ii = fr.ii + 1]
     ELSE [fr EXCEPT !.ctx = PostPass(ctx2, node.irs, NodeId(fr.ctx.function, fr.ni)), !.ni = fr.ni + 1, !.ii = 1]

SetTop(fr) == [stack EXCEPT ![Len(stack)] = fr]

Init ==
  /\ cu \in CompilationUnits
  /\ run = 1
  /\ phase = "pick"
  /\ ci = 1
  /\ fi = 1
  /\ call_taint_cache = EmptyBoolMap
  /\ callee_state_cache = EmptySetMap
  /\ seen = {}
  /\ results = <<>>
  /\ stack = <<>>
  /\ pending = <<>>
  /\ prev_results = <<>>
  /\ escaped = ""

\* "for contract in contracts_derived": the functions of this contract are done
NextContract ==
  /\ phase = "pick"
  /\ ci <= Len(cu.contracts)
  /\ fi > Len(Analyzable(cu.contracts[ci]))
  /\ ci' = ci + 1
  /\ fi' = 1
  /\ UNCHANGED <<cu, run, phase, call_taint_cache, callee_state_cache, seen, results, stack, pending, prev_results, escaped>>

\* "if not func.is_implemented: continue"
SkipUnimplemented ==
  /\ phase = "pick"
  /\ ci <= Len(cu.contracts)
  /\ fi <= Len(Analyzable(cu.contracts[ci]))
  /\ ~Func(Analyzable(cu.contracts[ci])[fi]).is_implemented
  /\ fi' = fi + 1
  /\ UNCHANGED <<cu, run, phase, ci, call_taint_cache, callee_state_cache, seen, results, stack, pending, prev_results, escaped>>

\* the driver calls _analyze_function(func, ...)
StartAnalysis ==
  /\ phase = "pick"
  /\ ci <= Len(cu.contracts)
  /\ fi <= Len(Analyzable(cu.contracts[ci]))
  /\ Func(Analyzable(cu.contracts[ci])[fi]).is_implemented
  /\ stack' = <<NewFrame(Analyzable(cu.contracts[ci])[fi])>>
  /\ phase' = "analyze"
  /\ UNCHANGED <<cu, run, ci, fi, call_taint_cache, callee_state_cache, seen, results, pending, prev_results, escaped>>

\* a node without operations: only the (empty) post-pass
StepEmptyNode ==
  /\ InDataFlow
  /\ TopNode.irs = <<>>
  /\ stack' = SetTop([Top EXCEPT !.ni = Top.ni + 1, !.ii = 1])
  /\ UNCHANGED <<cu, run, phase, ci, fi, call_taint_cache, callee_state_cache, seen, results, pending, prev_results, escaped>>

\* one operation that is no InternalCall
StepIR ==
  /\ InDataFlow
  /\ TopNode.irs # <<>>
  /\ TopIR.op # "InternalCall"
  /\ stack' = SetTop(Advance(Top, ProcessIR(Top.ctx, TopIR, TopNodeId)))
  /\ UNCHANGED <<cu, run, phase, ci, fi, call_taint_cache, callee_state_cache, seen, results, pending, prev_results, escaped>>

\* an InternalCall whose callee is None or has no nodes: _handle_internal_call returns at once
StepBrokenCall ==
  /\ InDataFlow
  /\ TopNode.irs # <<>>
  /\ TopIR.op = "InternalCall"
  /\ CalleeMissing(TopIR)
  /\ stack' = SetTop(Advance(Top, SeedGasGlobals(Top.ctx, TopIR)))
  /\ UNCHANGED <<cu, run, phase, ci, fi, call_taint_cache, callee_state_cache, seen, results, pending, prev_results, escaped>>

\* an InternalCall whose summary is in callee_state_cache
StepCallCached ==
  /\ InDataFlow
  /\ TopNode.irs # <<>>
  /\ TopIR.op = "InternalCall"
  /\ ~CalleeMissing(TopIR)
  /\ TopIR.fn \in DOMAIN callee_state_cache
  /\ call_taint_cache' = CallTaintCacheAfter(call_taint_cache, TopIR.fn)
  /\ stack' = SetTop(Advance(Top, CallPost(CallPre(SeedGasGlobals(Top.ctx, TopIR), TopIR, call_taint_cache), TopIR, callee_state_cache[TopIR.fn])))
  /\ UNCHANGED <<cu, run, phase, ci, fi, callee_state_cache, seen, results, pending, prev_results, escaped>>

\* a variant of the summariser that does not seed the cache before the analysis
PreSeed_omitted(cache, callee) == cache

\* "callee_state_cache[callee_key] = set()" before the callee is analysed
PreSeed(cache, callee) == [k \in DOMAIN cache \cup {callee} |-> IF k = callee THEN {} ELSE cache[k]]

\* an InternalCall to a free function not summarised yet: the cache is seeded
\* and "if func.contract_declarer is None: return set()" ends the summary
StepCallFree ==
  /\ InDataFlow
  /\ TopNode.irs # <<>>
  /\ TopIR.op = "InternalCall"
  /\ ~CalleeMissing(TopIR)
  /\ TopIR.fn \notin DOMAIN callee_state_cache
  /\ Func(TopIR.fn).contract_declarer = "None"
  /\ call_taint_cache' = CallTaintCacheAfter(call_taint_cache, TopIR.fn)
  /\ callee_state_cache' = PreSeed(callee_state_cache, TopIR.fn)
  /\ stack' = SetTop(Advance(Top, CallPost(CallPre(SeedGasGlobals(Top.ctx, TopIR), TopIR, call_taint_cache), TopIR, {})))
  /\ UNCHANGED <<cu, run, phase, ci, fi, seen, results, pending, prev_results, escaped>>

\* an InternalCall to a callee not summarised yet: the cache is seeded and
\* _callee_tainted_state_vars calls _analyze_function on the callee
StepCallEnter ==
  /\ InDataFlow
  /\ TopNode.irs # <<>>
  /\ TopIR.op = "InternalCall"
  /\ ~CalleeMissing(TopIR)
  /\ TopIR.fn \notin DOMAIN callee_state_cache
  /\ Func(TopIR.fn).contract_declarer # "None"
  /\ Len(stack) < MaxDepth
  /\ call_taint_cache' = CallTaintCacheAfter(call_taint_cache, TopIR.fn)
  /\ callee_state_cache' = PreSeed(callee_state_cache, TopIR.fn)
  /\ stack' = Append(SetTop([Top EXCEPT !.ctx = CallPre(SeedGasGlobals(Top.ctx, TopIR), TopIR, call_taint_cache)]), NewFrame(TopIR.fn))
  /\ UNCHANGED <<cu, run, phase, ci, fi, seen, results, pending, prev_results, escaped>>

\* Phase 2 of _analyze_function
StepControlFlow ==
  /\ phase = "analyze" /\ stack # <<>>
  /\ Top.pc = "df"
  /\ Top.ni > Len(Nodes(Top.ctx.function))
  /\ stack' = SetTop([Top EXCEPT !.ctx = _propagate_control_flow_taint(Top.ctx), !.pc = "ow"])
  /\ UNCHANGED <<cu, run, phase, ci, fi, call_taint_cache, callee_state_cache, seen, results, pending, prev_results, escaped>>

\* Phase 3 of _analyze_function
StepOverwrite ==
  /\ phase = "analyze" /\ stack # <<>>
  /\ Top.pc = "ow"
  /\ stack' = SetTop([Top EXCEPT !.ctx = _remove_overwritten_findings(Top.ctx), !.pc = "ret"])
  /\ UNCHANGED <<cu, run, phase, ci, fi, call_taint_cache, callee_state_cache, seen, results, pending, prev_results, escaped>>

\* variant: the summary holds every state variable, tainted or not
SummaryOf_every_state_variable(writes) == {X, Y}

\* "result = {sv for sv, _node, _reason in writes}"
SummaryOf(writes) == {writes[k].sv : k \in 1..Len(writes)}

\* _analyze_function returns to _callee_tainted_state_vars, which stores the
\* summary and returns to _handle_internal_call in the caller
ReturnToCaller ==
  /\ phase = "analyze" /\ Len(stack) > 1
  /\ Top.pc = "ret"
  /\ LET callee == Top.ctx.function
         result == SummaryOf(Top.ctx.tainted_state_writes)
         caller == stack[Len(stack) - 1]
         ir == Nodes(caller.ctx.function)[caller.ni].irs[caller.ii]
     IN /\ callee_state_cache' = [callee_state_cache EXCEPT ![callee] = result]
        /\ stack' = [SubSeq(stack, 1, Len(stack) - 1) EXCEPT ![Len(stack) - 1] = Advance(caller, CallPost(caller.ctx, ir, result))]
  /\ UNCHANGED <<cu, run, phase, ci, fi, call_taint_cache, seen, results, pending, prev_results, escaped>>

\* _analyze_function returns its writes to the driver
ReturnToDriver ==
  /\ phase = "analyze" /\ Len(stack) = 1
  /\ Top.pc = "ret"
  /\ pending' = Top.ctx.tainted_state_writes
  /\ stack' = <<>>
  /\ phase' = "emit"
  /\ UNCHANGED <<cu, run, ci, fi, call_taint_cache, callee_state_cache, seen, results, prev_results, escaped>>

CurrentContract == cu.contracts[ci]
CurrentFunction == Analyzable(cu.contracts[ci])[fi]
\* a variant of the driver's key that reuses the engine's (canonical_name, node)
SeenKey_by_node(w) == <<CanonicalName(w.sv), w.node>>

\* key = (sv.canonical_name, func.canonical_name)
SeenKey(w) == <<CanonicalName(w.sv), CurrentFunction>>

\* the result the driver builds for one write
MakeResult(w, contract, fname, slot) ==
  [variable |-> CanonicalName(w.sv), contract |-> contract.name, slot |-> slot.slot,
   slot_hex |-> SlotHex(slot.slot), offset |-> slot.offset, taint_source |-> w.reason,
   function |-> fname, state_var |-> w.sv, node |-> w.node]

\* "if key in seen: continue"
EmitDuplicate ==
  /\ phase = "emit" /\ pending # <<>>
  /\ SeenKey(Head(pending)) \in seen
  /\ pending' = Tail(pending)
  /\ UNCHANGED <<cu, run, phase, ci, fi, call_taint_cache, callee_state_cache, seen, results, stack, prev_results, escaped>>

\* a new key: seen.add, the slot lookup, results.append
EmitResult ==
  /\ phase = "emit" /\ pending # <<>>
  /\ SeenKey(Head(pending)) \notin seen
  /\ _get_storage_slot(CurrentContract, Head(pending).sv).err = ""
  /\ seen' = seen \cup {SeenKey(Head(pending))}
  /\ results' = Append(results, MakeResult(Head(pending), CurrentContract, CurrentFunction, _get_storage_slot(CurrentContract, Head(pending).sv)))
  /\ pending' = Tail(pending)
  /\ UNCHANGED <<cu, run, phase, ci, fi, call_taint_cache, callee_state_cache, stack, prev_results, escaped>>

\* a new key, and the oracle raises an exception _get_storage_slot does not
\* catch: it leaves _detect
EmitRaise ==
  /\ phase = "emit" /\ pending # <<>>
  /\ SeenKey(Head(pending)) \notin seen
  /\ _get_storage_slot(CurrentContract, Head(pending).sv).err # ""
  /\ seen' = seen \cup {SeenKey(Head(pending))}
  /\ escaped' = _get_storage_slot(CurrentContract, Head(pending).sv).err
  /\ phase' = "aborted"
  /\ UNCHANGED <<cu, run, ci, fi, call_taint_cache, callee_state_cache, results, stack, pending, prev_results>>

\* every write of this function was looped over: the next function
EmitDone ==
  /\ phase = "emit" /\ pending = <<>>
  /\ phase' = "pick"
  /\ fi' = fi + 1
  /\ UNCHANGED <<cu, run, ci, call_taint_cache, callee_state_cache, seen, results, stack, pending, prev_results, escaped>>

\* a variant of the second run in which the seen set outlives the call of _detect
NextRun_keeps_seen ==
  /\ phase = "pick"
  /\ ci > Len(cu.contracts)
  /\ run < MaxRuns
  /\ prev_results' = Append(prev_results, results)
  /\ run' = run + 1
  /\ ci' = 1
  /\ fi' = 1
  /\ call_taint_cache' = EmptyBoolMap
  /\ callee_state_cache' = EmptySetMap
  /\ results' = <<>>
  /\ UNCHANGED <<cu, phase, stack, pending, escaped, seen>>

\* "return results", and the detector is run again on the same compilation
\* unit: _detect starts from empty caches and an empty seen set
NextRun ==
  /\ phase = "pick"
  /\ ci > Len(cu.contracts)
  /\ run < MaxRuns
  /\ prev_results' = Append(prev_results, results)
  /\ run' = run + 1
  /\ ci' = 1
  /\ fi' = 1
  /\ call_taint_cache' = EmptyBoolMap
  /\ callee_state_cache' = EmptySetMap
  /\ seen' = {}
  /\ results' = <<>>
  /\ UNCHANGED <<cu, phase, stack, pending, escaped>>

\* "return results" of the last run
Finish ==
  /\ phase = "pick"
  /\ ci > Len(cu.contracts)
  /\ run >= MaxRuns
  /\ prev_results' = Append(prev_results, results)
  /\ phase' = "done"
  /\ UNCHANGED <<cu, run, ci, fi, call_taint_cache, callee_state_cache, seen, results, stack, pending, escaped>>

Next ==
  \/ NextContract
  \/ SkipUnimplemented
  \/ StartAnalysis
  \/ StepEmptyNode
  \/ StepIR
  \/ StepBrokenCall
  \/ StepCallCached
  \/ StepCallFree
  \/ StepCallEnter
  \/ StepControlFlow
  \/ StepOverwrite
  \/ ReturnToCaller
  \/ ReturnToDriver
  \/ EmitDuplicate
  \/ EmitResult
  \/ EmitRaise
  \/ EmitDone
  \/ NextRun
  \/ Finish

Spec == Init /\ [][Next]_vars

\* the declaration orders of the functions of a contract
Reorderings(fd) == {[k \in 1..Len(fd) |-> fd[p[k]]] : p \in Permutations(1..Len(fd))}

\* "return results", and the detector is run on the same contracts compiled
\* with their functions declared in another order: "for func in analyzable"
\* meets them in that order, from empty caches and an empty seen set
RunReordered ==
  /\ phase = "pick"
  /\ ci > Len(cu.contracts)
  /\ run < MaxRuns
  /\ \E fd \in Reorderings(cu.contracts[1].functions_declared) :
        cu' = [cu EXCEPT !.contracts[1].functions_declared = fd]
  /\ prev_results' = Append(prev_results, results)
  /\ run' = run + 1
  /\ ci' = 1
  /\ fi' = 1
  /\ call_taint_cache' = EmptyBoolMap
  /\ callee_state_cache' = EmptySetMap
  /\ seen' = {}
  /\ results' = <<>>
  /\ UNCHANGED <<phase, stack, pending, escaped>>

OrderNext ==
  \/ NextContract
  \/ SkipUnimplemented
  \/ StartAnalysis
  \/ StepEmptyNode
  \/ StepIR
  \/ StepBrokenCall
  \/ StepCallCached
  \/ StepCallFree
  \/ StepCallEnter
  \/ StepControlFlow
  \/ StepOverwrite
  \/ ReturnToCaller
  \/ ReturnToDriver
  \/ EmitDuplicate
  \/ EmitResult
  \/ EmitRaise
  \/ EmitDone
  \/ RunReordered
  \/ Finish

\* runs of the detector on the declaration orders of one set of functions
OrderSpec == Init /\ [][OrderNext]_vars

\* the analysis is one synchronous computation: it runs until it returns
FairSpec == Spec /\ WF_vars(Next)

(***************************************************************************)
(* Properties.                                                             *)
(***************************************************************************)
\* a per-function analysis has run its three phases and is about to return
Returned == phase = "analyze" /\ stack # <<>> /\ Top.pc = "ret"
RetNodes == Nodes(Top.ctx.function)
HasFinding(ctx, sv) == \E k \in 1..Len(ctx.tainted_state_writes) : ctx.tainted_state_writes[k].sv = sv
FindingsOf(ctx) == SeqToSet(ctx.tainted_state_writes)
AllResults == SeqToSet(results) \cup UNION {SeqToSet(prev_results[k]) : k \in 1..Len(prev_results)}

RECURSIVE MergeScan(_, _, _)
\* the index of the node that closes the branch opened before position j
MergeScan(nodes, j, open) ==
  IF j > Len(nodes) THEN Len(nodes) + 1
  ELSE IF nodes[j].type \in {"IF", "IFLOOP"} THEN MergeScan(nodes, j + 1, open + 1)
  ELSE IF nodes[j].type \in {"ENDIF", "ENDLOOP"}
       THEN (IF open = 0 THEN j ELSE MergeScan(nodes, j + 1, open - 1))
  ELSE MergeScan(nodes, j + 1, open)

\* the nodes between an IF/IFLOOP node and its own merge point
OwnBody(nodes, k) == (k + 1)..(MergeScan(nodes, k + 1, 0) - 1)

ConditionTainted(ctx, node) == \E ir \in SeqToSet(node.irs) : ir.op = "Condition" /\ is_tainted(ctx, ir.r)

\* the depth-0 direct Assignments to the state variable sv, as (node, position)
DirectWritesAtDepth0(name, sv) ==
  {q \in UNION {{<<k, j>> : j \in 1..Len(Nodes(name)[k].irs)} : k \in 1..Len(Nodes(name))} :
     /\ branch_depth(name)[q[1]] = 0
     /\ Nodes(name)[q[1]].irs[q[2]].op = "Assignment"
     /\ Nodes(name)[q[1]].irs[q[2]].lv = sv}

\* the last depth-0 direct Assignment to sv exists and its rvalue is clean
LastDirectWriteClean(ctx, sv) ==
  LET ws == DirectWritesAtDepth0(ctx.function, sv)
  IN /\ ws # {}
     /\ \E q \in ws : /\ \A o \in ws : o[1] < q[1] \/ (o[1] = q[1] /\ o[2] <= q[2])
                      /\ ~is_tainted(ctx, Nodes(ctx.function)[q[1]].irs[q[2]].r)

\* C1: when an analysis returns, every state variable written in a node of
\* the body of a branch whose condition is tainted (nested branches and the
\* nodes after a nested merge included) has an entry in the returned
\* findings, unless the last unconditional direct Assignment to it is clean.
C1_ControlFlowLaw ==
  Returned =>
    \A k \in 1..Len(RetNodes) :
      (RetNodes[k].type \in {"IF", "IFLOOP"} /\ ConditionTainted(Top.ctx, RetNodes[k])) =>
        \A b \in OwnBody(RetNodes, k) :
          \A sv \in SeqToSet(state_variables_written(RetNodes[b])) :
             ~LastDirectWriteClean(Top.ctx, sv) => HasFinding(Top.ctx, sv)

\* sv was written with a tainted value through a reference variable
TaintedReferenceWrite(ctx, sv) ==
  \E ir \in SeqToSet(FlatIRs(Nodes(ctx.function))) :
     /\ ir.op = "Assignment" /\ IsReferenceVariable(ir.lv)
     /\ _resolve_ref(ir.lv) = sv /\ is_tainted(ctx, ir.lv)

\* sv was written with a tainted value by a direct Assignment
TaintedDirectWrite(ctx, sv) ==
  \E ir \in SeqToSet(FlatIRs(Nodes(ctx.function))) : ir.op = "Assignment" /\ ir.lv = sv /\ is_tainted(ctx, ir.r)

StateVars == {X, Y}

\* C2 as stated: a clean last depth-0 direct Assignment to s leaves no finding
\* for s, unless s was also written through a reference: then the findings for
\* s are exempt from elimination and are still returned.
C2_OverwriteLawWithExemption ==
  Returned =>
    \A sv \in StateVars :
      LastDirectWriteClean(Top.ctx, sv) =>
        IF TaintedReferenceWrite(Top.ctx, sv) THEN HasFinding(Top.ctx, sv) ELSE ~HasFinding(Top.ctx, sv)

\* C2 amended: a clean last depth-0 direct Assignment to s leaves no finding
\* for s in the returned findings, whether or not s was also written through a
\* reference.
C2_OverwriteLaw ==
  Returned => \A sv \in StateVars : LastDirectWriteClean(Top.ctx, sv) => ~HasFinding(Top.ctx, sv)

\* C2 witness: an analysis returns, x was assigned a tainted value and its
\* last depth-0 direct Assignment is clean.
C2_Witness == Returned /\ LastDirectWriteClean(Top.ctx, X) /\ TaintedDirectWrite(Top.ctx, X)

\* C2 witness of the reference case: x was written with a tainted value
\* through a reference, and its last depth-0 direct Assignment is clean.
C2_ReferenceCase == Returned /\ LastDirectWriteClean(Top.ctx, X) /\ TaintedReferenceWrite(Top.ctx, X)

\* f has a depth-0 direct Assignment with a clean rvalue to sv at node k or
\* at a node after it
LaterCleanWrite(ctx, sv, k) ==
  \E q \in DirectWritesAtDepth0(ctx.function, sv) :
     q[1] >= k /\ ~is_tainted(ctx, Nodes(ctx.function)[q[1]].irs[q[2]].r)

\* C3: in the step of the overwrite eliminator, every finding (s, n) that is
\* dropped has an unconditional clean Assignment to s at a node after n (or
\* at n itself, where the post-pass records the write of a variable that an
\* earlier statement tainted); a clean write before n suppresses nothing.
C3_DropsOnlyForLaterCleanWrite ==
  [][(phase = "analyze" /\ stack # <<>> /\ Top.pc = "ow") =>
       \A w \in FindingsOf(Top.ctx) :
          (w \notin FindingsOf(stack'[Len(stack')].ctx)) => LaterCleanWrite(Top.ctx, w.sv, w.node.k)]_vars

\* C4: in every finding of every analysis in progress and in every emitted
\* result, the variable is a state variable and the reason is not empty.
C4_FindingsWellFormed ==
  /\ \A d \in 1..Len(stack) : \A w \in FindingsOf(stack[d].ctx) : IsStateVariable(w.sv) /\ w.reason # ""
  /\ \A w \in SeqToSet(pending) : IsStateVariable(w.sv) /\ w.reason # ""
  /\ \A r \in AllResults : IsStateVariable(r.state_var) /\ r.taint_source # ""

\* C4 witness: a result was emitted for a finding recorded by the control-flow
\* phase, at a node that only assigns constants.
C4_Witness ==
  \E r \in SeqToSet(results) :
     /\ NodeOf(r.node).irs # <<>>
     /\ \A ir \in SeqToSet(NodeOf(r.node).irs) : ir.op = "Assignment" /\ IsConstant(ir.r)

\* C5: over one run, no two emitted results have the same (variable
\* canonical_name, function canonical_name).
C5_OneResultPerVariableAndFunction ==
  \A i, j \in 1..Len(results) :
     (results[i].variable = results[j].variable /\ results[i].function = results[j].function) => i = j

\* C5 witness: the inherited modifier is analysed under a second derived
\* contract and returns a finding whose key was emitted under the first.
C5_Witness ==
  /\ phase = "emit" /\ pending # <<>> /\ ci = 2
  /\ CurrentFunction = "A.m"
  /\ \E r \in SeqToSet(results) : r.variable = CanonicalName(Head(pending).sv) /\ r.function = "A.m" /\ r.contract = "B"

\* C5 witness: one analysis returned the same variable at two nodes.
C5_WitnessTwoNodes ==
  /\ phase = "emit" /\ Len(pending) = 1
  /\ \E r \in SeqToSet(results) : /\ r.variable = CanonicalName(Head(pending).sv) /\ r.function = CurrentFunction
                                  /\ r.node # Head(pending).node

\* C6: every emitted slot_hex has 66 characters, "0x" and 64 lowercase hex
\* digits, and int(slot_hex, 16) is the slot; also for slot = -1.
C6_SlotHexFormat ==
  \A r \in AllResults :
     /\ Len(r.slot_hex) = 66
     /\ r.slot_hex[1] = "0" /\ r.slot_hex[2] = "x"
     /\ \A k \in 3..Len(r.slot_hex) : r.slot_hex[k] \in SeqToSet(HexChars)
     /\ IntBase16(r.slot_hex).ok
     /\ IntBase16(r.slot_hex).value = r.slot

ResultKeys == {<<r.variable, r.function>> : r \in SeqToSet(results)}
CaughtErrors == {"KeyError", "AttributeError"}

Finished == phase \in {"done", "aborted"}

\* the activations entered through the summariser are of pairwise distinct
\* callees, each seeded in callee_state_cache, and the stack stays below its cap
NoReentry ==
  /\ \A d, e \in 2..Len(stack) : stack[d].ctx.function = stack[e].ctx.function => d = e
  /\ \A d \in 2..Len(stack) : stack[d].ctx.function \in DOMAIN callee_state_cache
  /\ Len(stack) <= Cardinality(DOMAIN cu.funcs) + 1
  /\ Len(stack) < MaxDepth

\* C8: the summariser never re-enters the analysis of a callee in progress,
\* and every run of the detector ends.
C8_Terminates == []NoReentry /\ <>Finished

\* C8 witness: the analysis reaches a call to a callee whose analysis is in
\* progress further down the stack, and finds it seeded in the cache.
C8_Witness ==
  /\ InDataFlow /\ TopNode.irs # <<>> /\ TopIR.op = "InternalCall"
  /\ \E d \in 2..Len(stack) : stack[d].ctx.function = TopIR.fn
  /\ TopIR.fn \in DOMAIN callee_state_cache

\* C9: the runs of the detector over one compilation unit return identical
\* sets of results.
C9_Idempotent ==
  phase = "done" => \A a, b \in 1..Len(prev_results) : SeqToSet(prev_results[a]) = SeqToSet(prev_results[b])

\* C9 witness: two runs are complete, over a unit with a call cycle, and
\* returned results.
C9_Witness ==
  /\ phase = "done" /\ Len(prev_results) >= 2 /\ prev_results[1] # <<>>
  /\ \E n \in DOMAIN cu.funcs : \E ir \in SeqToSet(FlatIRs(Nodes(n))) : ir.op = "InternalCall" /\ ir.fn = n

RECURSIVE AliasScan(_, _)
\* the variables of a function derived from msg.sender through Assignments
\* and TypeConversions
AliasScan(irs, acc) ==
  IF irs = <<>> THEN acc
  ELSE AliasScan(Tail(irs),
                 IF Head(irs).op \in {"Assignment", "TypeConversion"} /\ (Head(irs).r = _MSG_SENDER \/ Head(irs).r \in acc)
                 THEN acc \cup {Head(irs).lv} ELSE acc)

\* the labels of the source operations occurring in one function
SourceLabelsIn(name) ==
  LET irs == FlatIRs(Nodes(name))
      al == AliasScan(irs, {})
  IN UNION {({v.n : v \in {w \in SeqToSet(Read(ir)) : IsGasComposed(w)}}
             \cup (IF ir.op = "SolidityCall" /\ ir.fn = _GASLEFT THEN {"gasleft()"} ELSE {})
             \cup (IF ir.op = "NewContract" /\ ~IsNone(ir.r) THEN {"CREATE2"} ELSE {})
             \cup (IF ir.op = "SolidityCall" /\ ir.fn = _BALANCE /\ ir.args # <<>>
                      /\ (ir.args[1] = _MSG_SENDER \/ ir.args[1] \in al)
                   THEN {"msg.sender.balance"} ELSE {})) : ir \in SeqToSet(irs)}

RECURSIVE ReachableFrom(_)
\* the functions reachable from a set of functions through internal calls
ReachableFrom(fs) ==
  LET more == fs \cup {ir.fn : ir \in {q \in UNION {SeqToSet(FlatIRs(Nodes(n))) : n \in fs} :
                                         q.op = "InternalCall" /\ q.fn \in DOMAIN cu.funcs}}
  IN IF more = fs THEN fs ELSE ReachableFrom(more)

SourceLabelsReachable(name) == UNION {SourceLabelsIn(n) : n \in ReachableFrom({name})}

\* reason is the sorted, ", "-joined list of a label set that contains req
JoinedSuperset(reason, req) ==
  \E L \in SUBSET SeqToSet(LabelOrder) : req \subseteq L /\ reason = JoinLabels(SortedLabels(L))

\* C10: the reason of every returned finding of f is the sorted, joined list
\* of a label set containing the label of every source operation of f and of
\* the functions f reaches through internal calls.
C10_ReasonMonotonicity ==
  Returned =>
    \A w \in FindingsOf(Top.ctx) : JoinedSuperset(w.reason, SourceLabelsReachable(Top.ctx.function))

\* an operation that reads the environment in a way the analysis may treat
\* as a source: gasleft, a salted creation, a gas global, any balance call
EnvironmentSourceOp(ir) ==
  \/ ir.op = "SolidityCall" /\ ir.fn \in {_GASLEFT, _BALANCE}
  \/ ir.op = "NewContract" /\ ~IsNone(ir.r)
  \/ \E v \in SeqToSet(Read(ir)) : IsGasComposed(v)

IsRequireNode(node) ==
  /\ node.type \notin {"IF", "IFLOOP"}
  /\ \E ir \in SeqToSet(node.irs) : ir.op = "SolidityCall" /\ ir.fn = "require(bool)"

\* the function makes no internal call and reads its sources only in nodes
\* that pass them to a require call
SourcesOnlyInGuards(name) ==
  /\ \A ir \in SeqToSet(FlatIRs(Nodes(name))) : ir.op # "InternalCall"
  /\ \A k \in 1..Len(Nodes(name)) :
       (\E ir \in SeqToSet(Nodes(name)[k].irs) : EnvironmentSourceOp(ir)) => IsRequireNode(Nodes(name)[k])

\* C11: an analysis of a function whose tainted values are used only as the
\* argument of a require call (a node that is neither IF nor IFLOOP) returns
\* no finding: the state variables assigned clean values in the following
\* nodes are not reported.
C11_GuardIsNotABranch ==
  (Returned /\ SourcesOnlyInGuards(Top.ctx.function)) => FindingsOf(Top.ctx) = {}

\* a returned analysis of require(gasleft() > 1); x = 1: the guard's value is
\* tainted and x is not reported
C11_Witness ==
  /\ Returned
  /\ Func(Top.ctx.function).src = <<"require(gasleft()>1)", "x=1">>
  /\ Top.ctx.tainted # {}
  /\ FindingsOf(Top.ctx) = {}

\* no function or modifier of the compilation unit holds a source operation
NoSourceOperation == \A n \in DOMAIN cu.funcs : SourceLabelsIn(n) = {}

\* C12: in a compilation unit without any source operation (no gasleft call,
\* no salted creation, no read of a gas global, no balance call on msg.sender
\* or an alias of it), the taint set and the findings of every analysis on
\* the stack are empty at every step, and no run emits a result.
C12_NoSourceNoTaint ==
  NoSourceOperation =>
    /\ \A k \in 1..Len(stack) : stack[k].ctx.tainted = {} /\ stack[k].ctx.tainted_state_writes = <<>>
    /\ pending = <<>>
    /\ AllResults = {}

\* a finished run over a source-free unit whose functions call one another
\* and copy state variables; nothing was emitted
C12_Witness ==
  /\ NoSourceOperation
  /\ phase = "done"
  /\ Func("A.f").src = <<"g()", "y=x+1">>
  /\ Len(prev_results) = MaxRuns
  /\ AllResults = {}

\* the label set of the sources other than the sender balance
PlainSourceLabels == {"gasleft()", "CREATE2", "tx.gasprice", "block.basefee", "block.blobbasefee", "block.gaslimit"}

\* the call graph of the function holds exactly one kind of source, label
OnlySource(name, label) == label \in PlainSourceLabels /\ SourceLabelsReachable(name) = {label}

\* the function assigns to sv, directly or through a reference, a value
\* that is no state variable and is tainted when the analysis ends
DerivedWrite(ctx, sv) ==
  \E ir \in SeqToSet(FlatIRs(Nodes(ctx.function))) :
     /\ ir.op = "Assignment" /\ _resolve_ref(ir.lv) = sv
     /\ ~IsStateVariable(ir.r) /\ is_tainted(ctx, ir.r)

ReportedAs(ctx, sv, label) == \E w \in FindingsOf(ctx) : w.sv = sv /\ w.reason = label

\* no balance call in the function nor in the functions it reaches
NoBalanceCall(name) ==
  \A n \in ReachableFrom({name}) : \A ir \in SeqToSet(FlatIRs(Nodes(n))) : ~(ir.op = "SolidityCall" /\ ir.fn = _BALANCE)

\* C13 as stated: a function whose call graph holds exactly one kind of
\* source X and which assigns a value derived from X to the state variable s
\* returns a finding for s whose reason is exactly the label of X (variables
\* dropped by overwrite elimination, whose last unconditional direct
\* Assignment is clean, set aside).
C13_ExactLabel ==
  Returned =>
    \A sv \in StateVars : \A label \in PlainSourceLabels :
       (OnlySource(Top.ctx.function, label) /\ DerivedWrite(Top.ctx, sv) /\ ~LastDirectWriteClean(Top.ctx, sv))
          => ReportedAs(Top.ctx, sv, label)

\* C13, amended: when in addition the call graph holds no balance call at
\* all, the finding for s is recorded by the data-flow and control-flow phases
\* with exactly the label of X as its reason; it is still there when the
\* analysis returns unless overwrite elimination dropped s (the last
\* unconditional direct Assignment to s is clean); and every result emitted
\* for such a function carries exactly that label.
C13_ExactLabelWithoutBalance ==
  /\ (phase = "analyze" /\ stack # <<>> /\ Top.pc \in {"ow", "ret"}) =>
       \A sv \in StateVars : \A label \in PlainSourceLabels :
          (OnlySource(Top.ctx.function, label) /\ NoBalanceCall(Top.ctx.function) /\ DerivedWrite(Top.ctx, sv)) =>
             /\ Top.pc = "ow" => ReportedAs(Top.ctx, sv, label)
             /\ (Top.pc = "ret" /\ ~LastDirectWriteClean(Top.ctx, sv)) => ReportedAs(Top.ctx, sv, label)
             /\ \A w \in FindingsOf(Top.ctx) : w.reason = label
  /\ \A k \in 1..Len(results) : \A label \in PlainSourceLabels :
       (OnlySource(results[k].function, label) /\ NoBalanceCall(results[k].function)) => results[k].taint_source = label

\* a result for x = new C{salt: s}() labelled CREATE2 has been emitted
C13_Witness ==
  /\ \E k \in 1..Len(results) : results[k].taint_source = "CREATE2" /\ results[k].state_var = X
  /\ OnlySource("A.f", "CREATE2")
  /\ Func("A.f").src = <<"x=new C{salt:s}()">>

\* a returned analysis of x = keccak256(gasleft()): one finding, labelled gasleft()
C13_WitnessHashed ==
  /\ Returned
  /\ Func(Top.ctx.function).src = <<"x=keccak256(gasleft())">>
  /\ DerivedWrite(Top.ctx, X)
  /\ ReportedAs(Top.ctx, X, "gasleft()")

\* the function assigns to sv the result of a balance call on msg.sender or
\* on a variable derived from it through Assignments and TypeConversions
SenderBalanceWrite(name, sv) ==
  LET irs == FlatIRs(Nodes(name))
      al == AliasScan(irs, {})
  IN \E call \in SeqToSet(irs) : \E asg \in SeqToSet(irs) :
       /\ call.op = "SolidityCall" /\ call.fn = _BALANCE /\ call.args # <<>>
       /\ (call.args[1] = _MSG_SENDER \/ call.args[1] \in al)
       /\ asg.op = "Assignment" /\ asg.lv = sv /\ asg.r = call.lv

\* C14: when a function assigns to the state variable b the balance of
\* msg.sender or of a variable derived from msg.sender through Assignments
\* and TypeConversions, its returned findings contain b with a reason that
\* contains "msg.sender.balance" (variables dropped by overwrite elimination
\* set aside).
C14_SenderBalanceThroughAlias ==
  Returned =>
    \A sv \in StateVars :
       (SenderBalanceWrite(Top.ctx.function, sv) /\ ~LastDirectWriteClean(Top.ctx, sv)) =>
          \E w \in FindingsOf(Top.ctx) : w.sv = sv /\ JoinedSuperset(w.reason, {"msg.sender.balance"})

\* an environment read that is no source: block.number, block.timestamp,
\* msg.value, a creation without salt, the balance of an address that is
\* neither msg.sender nor derived from it
NonSourceRead(name, ir) ==
  \/ \E v \in SeqToSet(Read(ir)) : v \in {SolV("block.number"), SolV("block.timestamp"), SolV("msg.value")}
  \/ ir.op = "NewContract" /\ IsNone(ir.r)
  \/ /\ ir.op = "SolidityCall" /\ ir.fn = _BALANCE /\ ir.args # <<>>
     /\ ir.args[1] # _MSG_SENDER /\ ir.args[1] \notin AliasScan(FlatIRs(Nodes(name)), {})

\* the function calls nothing, reads the environment, and only through
\* non-sources
OnlyNonSourceReads(name) ==
  /\ \A ir \in SeqToSet(FlatIRs(Nodes(name))) : ir.op # "InternalCall"
  /\ SourceLabelsIn(name) = {}
  /\ \E ir \in SeqToSet(FlatIRs(Nodes(name))) : NonSourceRead(name, ir)

\* C15: at every step of the analysis of a function whose only environment
\* reads are block.number, block.timestamp, msg.value, a creation without
\* salt or the balance of an address that is no sender alias, the taint set
\* is empty and no finding is recorded for the state variables it assigns.
C15_NonSourcesIntroduceNoTaint ==
  \A k \in 1..Len(stack) :
     OnlyNonSourceReads(stack[k].ctx.function) =>
        stack[k].ctx.tainted = {} /\ stack[k].ctx.tainted_state_writes = <<>>

\* a returned analysis of x = who.balance, without finding
C15_Witness ==
  /\ Returned
  /\ Func(Top.ctx.function).src = <<"x=who.balance">>
  /\ OnlyNonSourceReads(Top.ctx.function)
  /\ FindingsOf(Top.ctx) = {}

\* f calls the internal function g and afterwards assigns to the state
\* variable c the state variable t or a Binary of t
CallThenCopy(f, g, t, c) ==
  LET irs == FlatIRs(Nodes(f))
  IN \E i, j \in 1..Len(irs) :
       /\ i < j
       /\ irs[i].op = "InternalCall" /\ irs[i].fn = g
       /\ irs[j].op = "Assignment" /\ irs[j].lv = c
       /\ \/ irs[j].r = t
          \/ \E b \in (i + 1)..(j - 1) : irs[b].op = "Binary" /\ irs[b].lv = irs[j].r /\ t \in {irs[b].l, irs[b].r}

ResultFor(rs, sv, fname) == {rs[k] : k \in {q \in 1..Len(rs) : rs[q].state_var = sv /\ rs[q].function = fname}}

\* C16: in every completed run, when f calls an internal function g for
\* which the run emitted a finding for t, and f afterwards assigns a value
\* derived from t to c, the run also emitted a finding for c in f, and its
\* reason contains the labels of g's sources.
C16_CrossCallSideEffects ==
  \A r \in 1..Len(prev_results) :
     \A f, g \in DOMAIN cu.funcs : \A t, c \in StateVars :
        (t # c /\ f # g /\ CallThenCopy(f, g, t, c) /\ ResultFor(prev_results[r], t, g) # {}) =>
           /\ ResultFor(prev_results[r], c, f) # {}
           /\ \A w \in ResultFor(prev_results[r], c, f) : JoinedSuperset(w.taint_source, SourceLabelsIn(g))

\* a completed run over f: g(); y = x + 1 and g: x = gasleft(): x is reported
\* in g and y in f, labelled gasleft()
C16_Witness ==
  /\ Len(prev_results) >= 1
  /\ Func("A.f").src = <<"g()", "y=x+1">>
  /\ Func("A.g").src = <<"x=gasleft()">>
  /\ CallThenCopy("A.f", "A.g", X, Y)
  /\ \E w \in ResultFor(prev_results[1], X, "A.g") : w.taint_source = "gasleft()"
  /\ \E w \in ResultFor(prev_results[1], Y, "A.f") : w.taint_source = "gasleft()"

\* g returns the value of an internal call to h, h holds a source, and g's
\* own body holds none
ReturnsCallTo(g, h) ==
  /\ \E call \in SeqToSet(FlatIRs(Nodes(g))) : \E ret \in SeqToSet(FlatIRs(Nodes(g))) :
       /\ call.op = "InternalCall" /\ call.fn = h /\ ~IsNone(call.lv)
       /\ ret.op = "Return" /\ call.lv \in SeqToSet(ret.args)
  /\ _callee_introduces_taint(h)
  /\ ~_callee_introduces_taint(g)

\* f assigns to sv the return value of a call g() without arguments
AssignsCallTo(f, g, sv) ==
  \E call \in SeqToSet(FlatIRs(Nodes(f))) : \E asg \in SeqToSet(FlatIRs(Nodes(f))) :
     /\ call.op = "InternalCall" /\ call.fn = g /\ call.args = <<>> /\ ~IsNone(call.lv)
     /\ asg.op = "Assignment" /\ asg.lv = sv /\ asg.r = call.lv

\* C17: when f assigns to a state variable the return value of g(), and g
\* returns the value of an internal call h() whose body holds a source (g's
\* own body holding none and g taking no argument), the findings f's
\* analysis returns contain that state variable.
C17_MultiHopReturnValue ==
  Returned =>
    \A sv \in StateVars : \A g, h \in DOMAIN cu.funcs :
       (AssignsCallTo(Top.ctx.function, g, sv) /\ ReturnsCallTo(g, h)) => HasFinding(Top.ctx, sv)

\* sv is the lvalue of an Unpack of a tainted tuple, or is assigned such an
\* lvalue
AssignedFromTaintedTuple(ctx, sv) ==
  \E u \in SeqToSet(FlatIRs(Nodes(ctx.function))) :
     /\ u.op = "Unpack" /\ is_tainted(ctx, u.r)
     /\ \/ u.lv = sv
        \/ \E asg \in SeqToSet(FlatIRs(Nodes(ctx.function))) : asg.op = "Assignment" /\ asg.lv = sv /\ asg.r = u.lv

\* C18: when an analysis returns, the lvalue of every Unpack of a tainted
\* tuple is tainted, whatever its component index, and every state variable
\* assigned from a component of a tainted tuple (constant components
\* included) has a finding.
C18_TupleGranularity ==
  Returned =>
    /\ \A u \in SeqToSet(FlatIRs(RetNodes)) : (u.op = "Unpack" /\ is_tainted(Top.ctx, u.r)) => is_tainted(Top.ctx, u.lv)
    /\ \A sv \in StateVars : AssignedFromTaintedTuple(Top.ctx, sv) => HasFinding(Top.ctx, sv)

\* a returned analysis of (a, b) = (gasleft(), 0); x = a; y = b: y, assigned
\* from the constant component 1, is reported with x
C18_Witness ==
  /\ Returned
  /\ Func(Top.ctx.function).src = <<"(a,b)=(gasleft(),0);x=a;y=b">>
  /\ \E u \in SeqToSet(FlatIRs(RetNodes)) : u.op = "Unpack" /\ u.l.i = 1 /\ is_tainted(Top.ctx, u.r)
  /\ HasFinding(Top.ctx, X) /\ HasFinding(Top.ctx, Y)

\* the nodes of the function that write the state variable sv
WriteNodes(name, sv) == {k \in 1..Len(Nodes(name)) : sv \in SeqToSet(state_variables_written(Nodes(name)[k]))}

\* sv is written only by assignments of constants, in unconditional nodes
\* located after the ENDIF of an IF whose condition is tainted; the function
\* has no loop and calls nothing
CleanWritesAfterTaintedIf(ctx, sv) ==
  LET nodes == Nodes(ctx.function)
  IN /\ WriteNodes(ctx.function, sv) # {}
     /\ \A k \in 1..Len(nodes) : nodes[k].type # "IFLOOP"
     /\ \A ir \in SeqToSet(FlatIRs(nodes)) : ir.op # "InternalCall"
     /\ \E k \in 1..Len(nodes) :
          /\ nodes[k].type = "IF" /\ ConditionTainted(ctx, nodes[k])
          /\ \A w \in WriteNodes(ctx.function, sv) :
               /\ w > MergeScan(nodes, k + 1, 0)
               /\ branch_depth(ctx.function)[w] = 0
               /\ \A ir \in SeqToSet(nodes[w].irs) : _resolve_ref(ir.lv) = sv => (ir.op = "Assignment" /\ IsConstant(ir.r))

ReportedElsewhere(s, g) ==
  \E k \in 1..Len(results) : results[k].state_var = s /\ results[k].function \notin ReachableFrom({g})

\* g copies the state variable s into the state variable u
CopiesState(g, s, u) == \E ir \in SeqToSet(FlatIRs(Nodes(g))) : ir.op = "Assignment" /\ ir.lv = u /\ ir.r = s

\* C20: every analysis starts from an empty taint set, an empty sender-alias
\* set and no finding; and when the run has reported s for a function f, an
\* analysis of a function g that holds no source, reaches neither f nor any
\* source through its calls, and assigns s to u returns no finding for u.
C20_NoTaintAcrossAnalyses ==
  /\ \A k \in 1..Len(stack) :
       (stack[k].pc = "df" /\ stack[k].ni = 1 /\ stack[k].ii = 1) => stack[k].ctx = NewCtx(stack[k].ctx.function)
  /\ Returned =>
       \A s, u \in StateVars :
          (/\ s # u
           /\ CopiesState(Top.ctx.function, s, u)
           /\ SourceLabelsReachable(Top.ctx.function) = {}
           /\ ReportedElsewhere(s, Top.ctx.function)) => ~HasFinding(Top.ctx, u) /\ ~is_tainted(Top.ctx, s)

\* x was reported for g (x = gasleft()); the top-level analysis of h, which
\* calls nothing and copies x into y, returns without finding
C20_Witness ==
  /\ Returned /\ Len(stack) = 1
  /\ Top.ctx.function = "A.h"
  /\ Func("A.h").src = <<"y=x">>
  /\ Func("A.g").src = <<"x=gasleft()">>
  /\ ReportedElsewhere(X, "A.h")
  /\ CopiesState("A.h", X, Y)
  /\ FindingsOf(Top.ctx) = {}

\* C21: every finding (s, n, r) of an analysis of f refers to a node n of f
\* in which s is written (s is in n.state_variables_written); an operation
\* that only reads s produces no finding.
C21_FindingsAtWriteNodes ==
  \A k \in 1..Len(stack) : \A w \in FindingsOf(stack[k].ctx) :
     /\ w.node.f = stack[k].ctx.function
     /\ w.node.k \in 1..Len(Nodes(w.node.f))
     /\ w.sv \in SeqToSet(state_variables_written(NodeOf(w.node)))

\* the cached value of every callee says whether its body holds an operation
\* the data-flow rules treat as a source (balance calls on sender aliases
\* included)
CacheMatchesSources ==
  \A callee \in DOMAIN call_taint_cache : call_taint_cache[callee] = (SourceLabelsIn(callee) # {})

\* within a run, an entry of call_taint_cache is never dropped nor changed
CacheEntriesKept ==
  run' = run => \A callee \in DOMAIN call_taint_cache :
                  callee \in DOMAIN call_taint_cache' /\ call_taint_cache'[callee] = call_taint_cache[callee]

\* C22: call_taint_cache[callee] is true exactly when the callee's body holds
\* an operation that the source rules of the propagator recognise (gasleft,
\* balance of msg.sender or of a sender alias, salted creation, gas global
\* read), and an entry, once computed, never changes.
C22_CallTaintCacheExact == [](CacheMatchesSources) /\ [][CacheEntriesKept]_vars

\* the second half alone
C22_ComputedOnce == [][CacheEntriesKept]_vars

\* the driver has analysed every function of the run; the caches of the run
\* are still in place
RunEnd == phase = "pick" /\ ci > Len(cu.contracts)

\* the functions the driver analyses itself
DriverAnalysed == UNION {SeqToSet(Analyzable(cu.contracts[k])) : k \in 1..Len(cu.contracts)}

\* the state variables of the results the driver emitted for a function
DriverFindings(name) == {results[k].state_var : k \in {q \in 1..Len(results) : results[q].function = name}}

\* the functions a function calls directly
Callees(name) ==
  {ir.fn : ir \in {q \in SeqToSet(FlatIRs(Nodes(name))) : q.op = "InternalCall" /\ q.fn \in DOMAIN cu.funcs}}

\* some function reachable from name lies on a cycle of internal calls
ReachesCycle(name) == \E n \in ReachableFrom({name}) : Callees(n) # {} /\ n \in ReachableFrom(Callees(n))

SummaryKeys(callee) == {_var_key(sv) : sv \in callee_state_cache[callee]}

\* at the end of a run, every summary is within the driver's own findings
\* for the callee, and equal to them when the callee reaches no call cycle
SummaryUnderApproximates ==
  RunEnd =>
    \A callee \in DOMAIN callee_state_cache \cap DriverAnalysed :
       /\ callee_state_cache[callee] \subseteq DriverFindings(callee)
       /\ ~ReachesCycle(callee) => callee_state_cache[callee] = DriverFindings(callee)

\* when a call operation completes, the summary used for it is tainted in
\* the caller's context
SummaryMarkedInCaller ==
  /\ (/\ InDataFlow /\ TopNode.irs # <<>> /\ TopIR.op = "InternalCall" /\ ~CalleeMissing(TopIR)
      /\ TopIR.fn \in DOMAIN callee_state_cache /\ Len(stack') = Len(stack))
       => SummaryKeys(TopIR.fn) \subseteq stack'[Len(stack')].ctx.tainted
  /\ (Returned /\ Len(stack) > 1 /\ Len(stack') = Len(stack) - 1)
       => {_var_key(sv) : sv \in callee_state_cache'[Top.ctx.function]} \subseteq stack'[Len(stack')].ctx.tainted

\* C23: once computed, callee_state_cache[callee] is a subset of the state
\* variables of the findings the driver's own analysis of the callee returns
\* in the same run, the two are equal when the callee reaches no call cycle,
\* and every variable of the summary is tainted in the caller's context after
\* the call operation.
C23_SummaryRefinesDriver == [](SummaryUnderApproximates) /\ [][SummaryMarkedInCaller]_vars

\* the end of a run in which g (x = gasleft()) was summarised for its caller
\* f and analysed by the driver: both yield {x}
C23_Witness ==
  /\ RunEnd
  /\ "A.g" \in DOMAIN callee_state_cache
  /\ ~ReachesCycle("A.g")
  /\ callee_state_cache["A.g"] = {X}
  /\ DriverFindings("A.g") = {X}

\* the end of a run in which the summary of a callee on a call cycle is
\* strictly smaller than the driver's findings for it
C23_WitnessStrict ==
  /\ RunEnd
  /\ \E callee \in DOMAIN callee_state_cache \cap DriverAnalysed :
       /\ ReachesCycle(callee)
       /\ callee_state_cache[callee] # DriverFindings(callee)
       /\ callee_state_cache[callee] \subseteq DriverFindings(callee)

\* the IF/IFLOOP nodes of a function
BranchNodes(name) == {k \in 1..Len(Nodes(name)) : Nodes(name)[k].type \in {"IF", "IFLOOP"}}

\* some operation of the node has a tainted non-constant read
TaintedReadIn(ctx, node) ==
  \E ir \in SeqToSet(node.irs) : IsOperationWithLValue(ir) /\ \E v \in SeqToSet(NonConstReads(ir)) : is_tainted(ctx, v)

\* every state variable written in the body collected for node k has a
\* finding at the node that writes it
BodyReported(ctx, k) ==
  \A b \in SeqToSet(_collect_branch_body(ctx.function, k)) :
     \A sv \in SeqToSet(state_variables_written(Nodes(ctx.function)[b])) :
        \E w \in FindingsOf(ctx) : w.sv = sv /\ w.node = NodeId(ctx.function, b)

AfterControlFlow == phase = "analyze" /\ stack # <<>> /\ Top.pc = "ow"

\* C24 as stated: after the control-flow phase, the writes of the body of
\* every IF or IFLOOP node that has a Condition with a tainted value, or any
\* operation with a tainted non-constant read, are findings.
C24_ConditionOrAnyRead ==
  AfterControlFlow =>
    \A k \in BranchNodes(Top.ctx.function) :
       (ConditionTainted(Top.ctx, RetNodes[k]) \/ TaintedReadIn(Top.ctx, RetNodes[k])) => BodyReported(Top.ctx, k)

\* C24, amended: after the control-flow phase the writes of the body of an
\* IF or IFLOOP node are findings when the node has a Condition whose value
\* is tainted; and every finding is either at a node of such a body or at a
\* node with an operation whose tainted lvalue resolves to the variable: a
\* tainted read that does not reach the Condition's value reports nothing.
C24_ConditionValueOnly ==
  AfterControlFlow =>
    /\ \A k \in BranchNodes(Top.ctx.function) : ConditionTainted(Top.ctx, RetNodes[k]) => BodyReported(Top.ctx, k)
    /\ \A w \in FindingsOf(Top.ctx) :
         \/ \E ir \in SeqToSet(NodeOf(w.node).irs) :
              IsOperationWithLValue(ir) /\ _resolve_ref(ir.lv) = w.sv /\ is_tainted(Top.ctx, ir.lv)
         \/ \E k \in BranchNodes(Top.ctx.function) :
              ConditionTainted(Top.ctx, RetNodes[k]) /\ w.node.k \in SeqToSet(_collect_branch_body(Top.ctx.function, k))

\* the control-flow phase has run over an IF node that computes
\* gasleft() + 1 and branches on a clean condition: nothing is reported
C24_Witness ==
  /\ AfterControlFlow
  /\ Func(Top.ctx.function).src = <<"if(c,gasleft()+1){x=1}">>
  /\ \E k \in BranchNodes(Top.ctx.function) : TaintedReadIn(Top.ctx, RetNodes[k]) /\ ~ConditionTainted(Top.ctx, RetNodes[k])
  /\ FindingsOf(Top.ctx) = {}

\* the control-flow phase has run over if (gasleft() > 1) { x = 1; }: x is
\* reported at the body node
C24_WitnessTaintedCondition ==
  /\ AfterControlFlow
  /\ Func(Top.ctx.function).src = <<"if(gasleft()>1){x=1}">>
  /\ \E k \in BranchNodes(Top.ctx.function) : ConditionTainted(Top.ctx, RetNodes[k]) /\ BodyReported(Top.ctx, k)
  /\ HasFinding(Top.ctx, X)

\* in every step, the tainted set of every analysis that stays on the stack
\* keeps all its keys
TaintedKept ==
  \A k \in 1..Len(stack) :
     (k <= Len(stack') /\ stack'[k].ctx.function = stack[k].ctx.function) =>
        stack[k].ctx.tainted \subseteq stack'[k].ctx.tainted

\* C25: within one per-function pass the tainted set only grows: no step of
\* the data-flow phase, of the internal-call summariser, of the control-flow
\* phase or of the overwrite eliminator removes a key from it.
C25_TaintedOnlyGrows == [][TaintedKept]_vars

\* a returned analysis of x = gasleft(); x = 1: the finding for x was
\* eliminated and x is still in the tainted set
C25_Witness ==
  /\ Returned
  /\ Func(Top.ctx.function).src = <<"x=gasleft()", "x=1">>
  /\ is_tainted(Top.ctx, X)
  /\ FindingsOf(Top.ctx) = {}

\* C26: all findings of one per-function analysis carry the same reason
\* string, the one computed for the context from the function's call graph,
\* whether they were recorded by the data-flow or by the control-flow phase.
C26_OneReasonPerAnalysis ==
  \A k \in 1..Len(stack) : \A w \in FindingsOf(stack[k].ctx) :
     /\ stack[k].ctx.has_reason
     /\ w.reason = stack[k].ctx.cached_reason
     /\ w.reason = ReasonString(stack[k].ctx.function)

\* a returned analysis with a data-flow finding and a control-flow finding
\* at different nodes, both with the reason gasleft()
C26_Witness ==
  /\ Returned
  /\ Func(Top.ctx.function).src = <<"x=gasleft()", "if(gasleft()>1){x=1}">>
  /\ Len(Top.ctx.tainted_state_writes) = 2
  /\ \A w \in FindingsOf(Top.ctx) : w.reason = "gasleft()"

FindingKey(w) == <<CanonicalName(w.sv), w.node>>

\* C27: in every analysis, at every step (the end of each phase included),
\* no two entries of the findings list have the same (canonical_name, node)
\* key, and seen_writes is exactly the set of the keys of the entries in the
\* list, also after the overwrite eliminator removed entries.
C27_SeenWritesMatchFindings ==
  \A k \in 1..Len(stack) :
     LET writes == stack[k].ctx.tainted_state_writes
     IN /\ \A a, b \in 1..Len(writes) : FindingKey(writes[a]) = FindingKey(writes[b]) => a = b
        /\ stack[k].ctx.seen_writes = {FindingKey(writes[a]) : a \in 1..Len(writes)}

\* the overwrite eliminator has just emptied the findings of
\* x[k] = gasleft(); x = 1, and seen_writes with them
C27_Witness ==
  /\ Returned
  /\ Func(Top.ctx.function).src = <<"x[k]=gasleft()", "x=1">>
  /\ ToRemove(Top.ctx) = {"A.x"}
  /\ Top.ctx.tainted_state_writes = <<>>
  /\ Top.ctx.seen_writes = {}

\* the control-flow phase has ended with two findings for x at different
\* nodes and their two keys
C27_WitnessTwoKeys ==
  /\ AfterControlFlow
  /\ Len(Top.ctx.tainted_state_writes) = 2
  /\ Cardinality(Top.ctx.seen_writes) = 2

\* the reference variables that are lvalues of the compilation unit
ReferenceLvalues ==
  {ir.lv : ir \in {q \in UNION {SeqToSet(FlatIRs(Nodes(n))) : n \in DOMAIN cu.funcs} : IsReferenceVariable(q.lv)}}

RECURSIVE ChainFrom(_, _)
\* the objects met when following points_to_origin from v until a
\* non-reference or a repeated object
ChainFrom(v, met) ==
  IF ~IsReferenceVariable(v) \/ v \in met THEN met ELSE ChainFrom(points_to_origin(v), met \cup {v})

\* the chain from v never reaches a non-reference object
IsCyclicChain(v) == \A r \in ChainFrom(v, {}) : IsReferenceVariable(points_to_origin(r))

RECURSIVE ResolveTurns(_, _)
\* the number of turns of the while loop of _resolve_ref
ResolveTurns(v, met) ==
  IF ~IsReferenceVariable(v) \/ v \in met THEN 0 ELSE 1 + ResolveTurns(points_to_origin(v), met \cup {v})

\* the chain from v ends in the object o
ChainEndsIn(v, o) == \E r \in ChainFrom(v, {}) : points_to_origin(r) = o

\* C28: _resolve_ref ends after at most one turn per reference of the chain,
\* cyclic chains included; for an acyclic chain it returns the non-reference
\* origin, so a tainted write through a chain ending in a state variable is a
\* finding for that variable; for a cyclic chain it returns a reference
\* variable, and no finding is recorded for a write through it.
C28_ResolveTerminates ==
  /\ \A v \in ReferenceLvalues :
       /\ ResolveTurns(v, {}) <= Cardinality(ChainFrom(v, {}))
       /\ IsCyclicChain(v) => IsReferenceVariable(_resolve_ref(v))
       /\ ~IsCyclicChain(v) => ~IsReferenceVariable(_resolve_ref(v)) /\ ChainEndsIn(v, _resolve_ref(v))
  /\ AfterControlFlow =>
       \A ir \in SeqToSet(FlatIRs(RetNodes)) :
          (ir.op = "Assignment" /\ IsReferenceVariable(ir.lv) /\ is_tainted(Top.ctx, ir.lv)) =>
             /\ \A sv \in StateVars : ChainEndsIn(ir.lv, sv) => HasFinding(Top.ctx, sv)
             /\ (\A sv \in StateVars : ~ChainEndsIn(ir.lv, sv)) =>
                  \A w \in FindingsOf(Top.ctx) : \A o \in SeqToSet(NodeOf(w.node).irs) : o.lv # ir.lv

\* x[k][j] = gasleft(): the chain of two references is resolved to x and
\* the write is reported
C28_Witness ==
  /\ AfterControlFlow
  /\ Func(Top.ctx.function).src = <<"x[k][j]=gasleft()">>
  /\ \E v \in ReferenceLvalues : ResolveTurns(v, {}) = 2 /\ _resolve_ref(v) = X
  /\ HasFinding(Top.ctx, X)

\* a tainted write through a cyclic chain: the walk stops on the repeated
\* reference and nothing is reported
C28_WitnessCycle ==
  /\ AfterControlFlow
  /\ Func(Top.ctx.function).src = <<"cyclic reference=gasleft()">>
  /\ \E v \in ReferenceLvalues : IsCyclicChain(v) /\ ResolveTurns(v, {}) = 2 /\ is_tainted(Top.ctx, v)
  /\ FindingsOf(Top.ctx) = {}

\* the state variables of the results of an earlier run for a function
FindingsOfRun(r, name) == {prev_results[r][k].state_var : k \in {q \in 1..Len(prev_results[r]) : prev_results[r][q].function = name}}

\* C29: the findings the driver reports for a function do not depend on the
\* order in which it analyses the functions, call cycles included: every run
\* on a declaration order of the same functions ends with the state variables
\* the run before it reported, function by function.
C29_OrderIndependent ==
  (RunEnd /\ run > 1) =>
    \A name \in DriverAnalysed : DriverFindings(name) = FindingsOfRun(run - 1, name)

\* the same, for the functions that reach no cycle of internal calls
C29_OrderIndependentOffCycles ==
  (RunEnd /\ run > 1) =>
    \A name \in DriverAnalysed : ~ReachesCycle(name) => DriverFindings(name) = FindingsOfRun(run - 1, name)

\* the analyses in progress: the driver's and the nested summaries
Frames == {stack[k] : k \in 1..Len(stack)}

\* C30: a finding never carries the fallback reason "tainted source": in
\* every analysis, as soon as anything is tainted in the context the reason
\* collection over the function's call graph holds a concrete label, and the
\* findings of the engine and the results of the driver carry the joined
\* labels.
C30_NeverFallbackReason ==
  /\ \A fr \in Frames :
       /\ fr.ctx.tainted # {} => ReasonLabels(fr.ctx.function) # {}
       /\ \A w \in FindingsOf(fr.ctx) :
            w.reason # FallbackReason /\ w.reason = JoinLabels(SortedLabels(ReasonLabels(fr.ctx.function)))
  /\ \A r \in AllResults : r.taint_source # FallbackReason

\* f calls g and copies x: f's body has no source operation, the taint comes
\* from g's summary and the label from g's body
C30_Witness ==
  /\ Returned /\ Len(stack) = 1
  /\ Func(Top.ctx.function).src = <<"g()", "y=x+1">>
  /\ ScanReasons(Top.ctx.function).labels = {}
  /\ \E w \in FindingsOf(Top.ctx) : w.sv = Y /\ w.reason = "gasleft()"

=============================================================================
